---- MODULE Spec2Model ----
(***************************************************************************)
(* Model of the Appium automation agent                                    *)
(* (src/.github/skills/appium-automation/scripts/automate.py):             *)
(*   - session lifecycle: AppiumAgent.connect / _try_reuse_session /       *)
(*     _load_cached_session / _save_session / _clear_session_cache /       *)
(*     disconnect, run by several invocations of the tool that share the   *)
(*     on-disk cache and the remote server            (SpecSession);       *)
(*   - element resolution: AppiumAgent.find_element   (SpecFind);          *)
(*   - argument parsing: parse_ordered_actions        (SpecParse);         *)
(*   - the action loop of main() with execute_action  (SpecRun).           *)
(***************************************************************************)
EXTENDS Integers, Sequences, FiniteSets, TLC

(***************************************************************************)
(* Session lifecycle                                                       *)
(***************************************************************************)

VARIABLES
    cache,      \* the files of SESSION_CACHE_DIR: cache key -> record
    live,       \* session ids that are live on the remote server
    nextSid,    \* the id the server hands to the next created session
    agent,      \* per invocation: the AppiumAgent object and where main() is
    invocations,\* invocations of the tool started so far
    now,        \* time.time(), in seconds
    calls,      \* remote calls issued by the most recent handler, in order
    lastOp      \* the most recent handler: which, by whom, whether it raised

sessionVars == <<cache, live, nextSid, agent, invocations, now, calls, lastOp>>

\* element resolution (AppiumAgent.find_element)
VARIABLES
    fcall,      \* the call: platform, app_id, identifier, timeout, and the page
    fi,         \* position of the for loop in the strategy list (from 1)
    felapsed,   \* time.time() - start_time
    fattempts,  \* the WebDriverWait(...).until(...) calls made so far
    fresult,    \* "pending", "found", "notfound" (None) or "raised"
    felem       \* the element returned (NoElem when none)

\* argument parsing (parse_ordered_actions)
VARIABLES
    pargv,      \* the argument list
    pout,       \* the list parse_ordered_actions returns
    pdone       \* whether it has been called

\* the action loop of main()
VARIABLES
    ractions,   \* ordered_actions: the flags of the parsed actions, in order
    rpc,        \* "args", "appium", "start", "loop" (inside the with block),
                \* "usage_error" or "exited"
    rpos,       \* position of the for loop in ordered_actions (from 1)
    rexecuted,  \* the execute_action calls made so far, with their outcome
    rexit,      \* the exit code of the process (NoExit while it runs)
    rdisconnects \* calls of AppiumAgent.disconnect made by __exit__

\* AppiumAgent.end_all_sessions
VARIABLES
    efiles,     \* the session_*.json files of the cache directory, in glob order
    elive,      \* session ids that are live on the remote server
    ecalls,     \* the DELETE calls issued, in order, with their outcome
    eseen,      \* the records the loop has been through, in order
    epc         \* "start", "returned" or "raised"

\* single calls of agent methods (get_text, set_slider, find_like, cache key)
VARIABLES
    uin,        \* the call: the method and its inputs
    uout,       \* what the call did and returned
    udone       \* whether the call has been made

\* the polling loops (AppiumAgent.wait_for_text, wait_until_gone)
VARIABLES
    wcall,      \* the call: which of the two, platform, identifier, timeout
    wnow,       \* time.time() minus its value when the call began
    wlast,      \* the most recent iteration of the while loop
    wresult     \* "pending", "true", "false" or "raised"

findVars == <<fcall, fi, felapsed, fattempts, fresult, felem>>
parseVars == <<pargv, pout, pdone>>
runVars == <<ractions, rpc, rpos, rexecuted, rexit, rdisconnects>>
endVars == <<efiles, elive, ecalls, eseen, epc>>
callVars == <<uin, uout, udone>>
waitVars == <<wcall, wnow, wlast, wresult>>
vars == <<sessionVars, findVars, parseVars, runVars, endVars, callVars, waitVars>>

\* what an action of one part of the model leaves alone
notSession == <<findVars, parseVars, runVars, endVars, callVars, waitVars>>
notFind == <<sessionVars, parseVars, runVars, endVars, callVars, waitVars>>
notParse == <<sessionVars, findVars, runVars, endVars, callVars, waitVars>>
notRun == <<sessionVars, findVars, parseVars, endVars, callVars, waitVars>>
notEnd == <<sessionVars, findVars, parseVars, runVars, callVars, waitVars>>
notCall == <<sessionVars, findVars, parseVars, runVars, endVars, waitVars>>
notWait == <<sessionVars, findVars, parseVars, runVars, endVars, callVars>>


\* ---- bounds of the model ----
MaxSessions == 2        \* sessions the server creates in one behaviour
StartTime == 1000       \* time.time() at the start of a behaviour
MaxElapsed == 301       \* seconds a behaviour lasts at most
MaxInvocations == 3     \* invocations of the tool in one behaviour

\* ---- program constants ----
SessionTTL == 300       \* "Session expires after 5 minutes of inactivity"

Agents == {"a1", "a2"}
\* the instants of a behaviour: ages of 0, 1, TTL and TTL+1 seconds occur
TimeOffsets == {0, SessionTTL, SessionTTL + 1}

NoSid == 0              \* no session id: driver is None / key "session_id" absent
NoTs == 0 - 1           \* key "timestamp" absent from the record
PriorSid == MaxSessions + 1   \* a session created before the behaviour starts
SessionIds == 1..PriorSid

CfgA == [platform |-> "ios", app_id |-> "com.example.app", udid |-> "sim1",
         appium_url |-> "http://127.0.0.1:4723"]
CfgB == [platform |-> "android", app_id |-> "com.example.app", udid |-> "sim1",
         appium_url |-> "http://127.0.0.1:4723"]
Configs == {CfgA, CfgB}
AgentConfigs == {CfgA}  \* the invocations of a behaviour target one application

\* f"{platform}:{app_id}:{udid}:{appium_url}", kept as its four parts
get_session_cache_key(cfg) ==
    <<cfg.platform, cfg.app_id, cfg.udid, cfg.appium_url>>

CacheKeys == {get_session_cache_key(c) : c \in Configs}

\* ---- cache records ----
NoFile == [kind |-> "none", session_id |-> NoSid, platform |-> "", app_id |-> "",
           appium_url |-> "", timestamp |-> NoTs]
\* a file whose content is not a JSON object (unreadable, invalid JSON, a list)
Garbage == [kind |-> "garbage", session_id |-> NoSid, platform |-> "", app_id |-> "",
            appium_url |-> "", timestamp |-> NoTs]
Descriptor(sid, cfg, ts) ==
    [kind |-> "dict", session_id |-> sid, platform |-> cfg.platform,
     app_id |-> cfg.app_id, appium_url |-> cfg.appium_url, timestamp |-> ts]

\* _save_session: the record written for a handle bound to sid, or the file
\* as it was when the agent holds no handle
save_session_drop(rec, driver, cfg, t) == rec
save_session(rec, driver, cfg, t) ==
    IF driver # NoSid THEN Descriptor(driver, cfg, t) ELSE rec

\* _clear_session_cache: cache_file.unlink(missing_ok=True)
clear_session_cache(rec) == NoFile

\* "time.time() - data.get("timestamp", 0) > 300"
session_expired_at_ttl(ts, t) == t - ts >= SessionTTL
session_expired(ts, t) == t - ts > SessionTTL

\* _load_cached_session: data is the dict returned (NoFile stands for None),
\* file is what is on disk afterwards
load_cached_session_missing_ts_now(rec, t) ==
    IF rec.kind = "none" THEN [data |-> NoFile, file |-> rec]
    ELSE IF rec.kind = "garbage" THEN [data |-> NoFile, file |-> rec]
    ELSE LET ts == IF rec.timestamp = NoTs THEN t ELSE rec.timestamp
         IN IF session_expired(ts, t)
            THEN [data |-> NoFile, file |-> NoFile]
            ELSE [data |-> rec, file |-> rec]
load_cached_session(rec, t) ==
    IF rec.kind = "none" THEN [data |-> NoFile, file |-> rec]
    ELSE IF rec.kind = "garbage" THEN [data |-> NoFile, file |-> rec]
    ELSE LET ts == IF rec.timestamp = NoTs THEN 0 ELSE rec.timestamp
         IN IF session_expired(ts, t)
            THEN [data |-> NoFile, file |-> NoFile]
            ELSE [data |-> rec, file |-> rec]

\* ---- the liveness probe GET <server>/session/<id> ----
\* what urlopen can give for a session that is live / not live on the server
ProbeFailures == {"transport_error", "http_error", "status_not_200"}
ProbeMalformed == {"ok200_invalid_json", "ok200_not_object"}
ProbeResponses(sid) ==
    IF sid \in live
    THEN {"ok200", "transport_error"} \cup ProbeMalformed
    ELSE ProbeFailures

\* _try_reuse_session, given the file, the time and the probe's answer:
\* ok is the return value, driver the value of self.driver afterwards
\* (old is its value before), file the cache file afterwards.
try_reuse_session_keepfile(rec, old, cfg, t, probe) ==
    LET ld == load_cached_session(rec, t) IN
    IF ld.data.kind = "none"
    THEN \* "if not cached: return False"
         [ok |-> FALSE, driver |-> old, file |-> ld.file, calls |-> <<>>]
    ELSE IF ld.data.session_id = NoSid
    THEN \* cached['session_id'] raises KeyError: outer except
         [ok |-> FALSE, driver |-> old, file |-> clear_session_cache(ld.file),
          calls |-> <<>>]
    ELSE LET sid == ld.data.session_id
             get == << <<"GET", sid, probe>> >>
         IN IF probe \in ProbeFailures \cup {"ok200_invalid_json"}
            THEN \* inner except / status != 200
                 [ok |-> FALSE, driver |-> old, file |-> ld.file, calls |-> get]
            ELSE IF probe = "ok200_not_object"
            THEN \* caps_data.get raises after self.driver.session_id was set
                 [ok |-> FALSE, driver |-> sid,
                  file |-> clear_session_cache(ld.file), calls |-> get]
            ELSE [ok |-> TRUE, driver |-> sid,
                  file |-> save_session(ld.file, sid, cfg, t), calls |-> get]
try_reuse_session_returns_false(rec, old, cfg, t, probe) ==
    LET ld == load_cached_session(rec, t) IN
    IF ld.data.kind = "none"
    THEN \* "if not cached: return False"
         [ok |-> FALSE, driver |-> old, file |-> ld.file, calls |-> <<>>]
    ELSE IF ld.data.session_id = NoSid
    THEN \* cached['session_id'] raises KeyError: outer except
         [ok |-> FALSE, driver |-> old, file |-> clear_session_cache(ld.file),
          calls |-> <<>>]
    ELSE LET sid == ld.data.session_id
             get == << <<"GET", sid, probe>> >>
         IN IF probe \in ProbeFailures \cup {"ok200_invalid_json"}
            THEN \* inner except / status != 200
                 [ok |-> FALSE, driver |-> old,
                  file |-> clear_session_cache(ld.file), calls |-> get]
            ELSE IF probe = "ok200_not_object"
            THEN \* caps_data.get raises after self.driver.session_id was set
                 [ok |-> FALSE, driver |-> sid,
                  file |-> clear_session_cache(ld.file), calls |-> get]
            ELSE [ok |-> FALSE, driver |-> sid,
                  file |-> save_session(ld.file, sid, cfg, t), calls |-> get]
try_reuse_session(rec, old, cfg, t, probe) ==
    LET ld == load_cached_session(rec, t) IN
    IF ld.data.kind = "none"
    THEN \* "if not cached: return False"
         [ok |-> FALSE, driver |-> old, file |-> ld.file, calls |-> <<>>]
    ELSE IF ld.data.session_id = NoSid
    THEN \* cached['session_id'] raises KeyError: outer except
         [ok |-> FALSE, driver |-> old, file |-> clear_session_cache(ld.file),
          calls |-> <<>>]
    ELSE LET sid == ld.data.session_id
             get == << <<"GET", sid, probe>> >>
         IN IF probe \in ProbeFailures \cup {"ok200_invalid_json"}
            THEN \* inner except / status != 200
                 [ok |-> FALSE, driver |-> old,
                  file |-> clear_session_cache(ld.file), calls |-> get]
            ELSE IF probe = "ok200_not_object"
            THEN \* caps_data.get raises after self.driver.session_id was set
                 [ok |-> FALSE, driver |-> sid,
                  file |-> clear_session_cache(ld.file), calls |-> get]
            ELSE [ok |-> TRUE, driver |-> sid,
                  file |-> save_session(ld.file, sid, cfg, t), calls |-> get]


\* ---- remote calls other than the probe ----
\* DELETE /session/<id>, issued by driver.quit()
QuitResponses(sid) ==
    IF sid \in live THEN {"ok", "transport_error"}
    ELSE {"invalid_session", "transport_error"}

\* before: the agent's cache file before the handler ran; had: the session
\* id of the handle the agent held before it; hadLive: whether that session
\* was live on the server
NoOp == [op |-> "none", agent |-> "", raised |-> FALSE, before |-> NoFile,
         had |-> NoSid, hadLive |-> FALSE]

Constructed(cfg, reuse, keep) ==
    [pc |-> "constructed", cfg |-> cfg, reuse_session |-> reuse,
     keep_session |-> keep, driver |-> NoSid, session_reused |-> FALSE]

\* ---- AppiumAgent.connect ----
\* probe: the answer to the liveness probe, if one is made; createOk: whether
\* webdriver.Remote(...) succeeds; waitOk: whether implicitly_wait(5) succeeds
connect(a, probe, createOk, waitOk) ==
    LET ag == agent[a]
        k == get_session_cache_key(ag.cfg)
        r == try_reuse_session(cache[k], ag.driver, ag.cfg, now, probe)
        \* state after "if self.reuse_session: if self._try_reuse_session():"
        reused == ag.reuse_session /\ r.ok
        file1 == IF ag.reuse_session THEN r.file ELSE cache[k]
        drv1 == IF ag.reuse_session THEN r.driver ELSE ag.driver
        calls1 == IF ag.reuse_session THEN r.calls ELSE <<>>
        sid == nextSid
        post == << <<"POST_session", IF createOk THEN sid ELSE NoSid,
                     IF createOk THEN "ok" ELSE "error">> >>
        wait(s) == << <<"POST_timeouts", s, IF waitOk THEN "ok" ELSE "error">> >>
    IN
    /\ ag.pc = "constructed"
    /\ probe \in ProbeResponses(load_cached_session(cache[k], now).data.session_id)
    /\ now' = now
    /\ invocations' = invocations
    /\ UNCHANGED notSession
    /\ IF reused
       THEN \* reattached: implicitly_wait(5); return self
            /\ lastOp' = [op |-> "connect", agent |-> a, raised |-> ~waitOk,
                          before |-> cache[k], had |-> ag.driver,
                          hadLive |-> ag.driver \in live]
            /\ calls' = calls1 \o wait(drv1)
            /\ agent' = [agent EXCEPT ![a].driver = drv1,
                                      ![a].session_reused = TRUE,
                                      ![a].pc = IF waitOk THEN "connected" ELSE "failed"]
            /\ cache' = [cache EXCEPT ![k] = file1]
            /\ UNCHANGED <<live, nextSid>>
       ELSE \* webdriver.Remote(...); implicitly_wait(5); save if keep_session
            /\ nextSid <= MaxSessions
            /\ lastOp' = [op |-> "connect", agent |-> a,
                          raised |-> ~(createOk /\ waitOk),
                          before |-> cache[k], had |-> ag.driver,
                          hadLive |-> ag.driver \in live]
            /\ calls' = IF createOk THEN calls1 \o post \o wait(sid)
                        ELSE calls1 \o post
            /\ live' = IF createOk THEN live \cup {sid} ELSE live
            /\ nextSid' = IF createOk THEN nextSid + 1 ELSE nextSid
            /\ agent' = [agent EXCEPT
                  ![a].driver = IF createOk THEN sid ELSE drv1,
                  ![a].pc = IF createOk /\ waitOk THEN "connected" ELSE "failed"]
            /\ cache' = [cache EXCEPT ![k] =
                  IF createOk /\ waitOk /\ ag.keep_session
                  THEN save_session(file1, sid, ag.cfg, now) ELSE file1]

\* ---- AppiumAgent.disconnect ----
\* quit: the server's answer to driver.quit(), if it is called
disconnect_always_quit(a, quit) ==
    LET ag == agent[a]
        k == get_session_cache_key(ag.cfg)
    IN
    /\ ag.pc \in {"connected", "disconnected"}
    /\ quit \in QuitResponses(ag.driver)
    /\ now' = now
    /\ invocations' = invocations
    /\ UNCHANGED notSession
    /\ nextSid' = nextSid
    /\ lastOp' = [op |-> "disconnect", agent |-> a,
                  raised |-> ag.driver # NoSid /\ quit # "ok",
                  before |-> cache[k], had |-> ag.driver,
                          hadLive |-> ag.driver \in live]
    /\ calls' = IF ag.driver = NoSid THEN <<>>
                ELSE << <<"DELETE", ag.driver, quit>> >>
    /\ live' = IF ag.driver # NoSid /\ quit = "ok" THEN live \ {ag.driver} ELSE live
    /\ cache' = [cache EXCEPT ![k] =
                    IF ag.driver # NoSid /\ quit = "ok"
                    THEN clear_session_cache(@) ELSE @]
    /\ agent' = [agent EXCEPT ![a].pc = "disconnected",
                    ![a].driver = IF quit = "ok" THEN NoSid ELSE @]
disconnect(a, quit) ==
    LET ag == agent[a]
        k == get_session_cache_key(ag.cfg)
    IN
    /\ ag.pc \in {"connected", "disconnected"}
    /\ quit \in QuitResponses(ag.driver)
    /\ now' = now
    /\ invocations' = invocations
    /\ UNCHANGED notSession
    /\ nextSid' = nextSid
    /\ IF ag.driver = NoSid
       THEN \* "if self.driver:" is false
            /\ lastOp' = [op |-> "disconnect", agent |-> a, raised |-> FALSE,
                          before |-> cache[k], had |-> ag.driver,
                          hadLive |-> ag.driver \in live]
            /\ calls' = <<>>
            /\ agent' = [agent EXCEPT ![a].pc = "disconnected"]
            /\ UNCHANGED <<live, cache>>
       ELSE IF ag.keep_session
       THEN \* save and detach
            /\ lastOp' = [op |-> "disconnect", agent |-> a, raised |-> FALSE,
                          before |-> cache[k], had |-> ag.driver,
                          hadLive |-> ag.driver \in live]
            /\ calls' = <<>>
            /\ cache' = [cache EXCEPT ![k] = save_session(@, ag.driver, ag.cfg, now)]
            /\ agent' = [agent EXCEPT ![a].pc = "disconnected", ![a].driver = NoSid]
            /\ UNCHANGED live
       ELSE \* driver.quit(); _clear_session_cache(); driver = None
            /\ lastOp' = [op |-> "disconnect", agent |-> a, raised |-> quit # "ok",
                          before |-> cache[k], had |-> ag.driver,
                          hadLive |-> ag.driver \in live]
            /\ calls' = << <<"DELETE", ag.driver, quit>> >>
            /\ live' = IF quit = "ok" THEN live \ {ag.driver} ELSE live
            /\ cache' = [cache EXCEPT ![k] =
                            IF quit = "ok" THEN clear_session_cache(@) ELSE @]
            /\ agent' = [agent EXCEPT ![a].pc = "disconnected",
                            ![a].driver = IF quit = "ok" THEN NoSid ELSE @]

\* ---- the environment of the tool ----
\* a new invocation of the tool: AppiumAgent.__init__
NewInvocation(a, cfg, reuse, keep) ==
    /\ agent[a].pc \in {"disconnected", "failed"}
    /\ invocations < MaxInvocations
    /\ invocations' = invocations + 1
    /\ agent' = [agent EXCEPT ![a] = Constructed(cfg, reuse, keep)]
    /\ lastOp' = NoOp
    /\ calls' = <<>>
    /\ UNCHANGED <<cache, live, nextSid, now>>
    /\ UNCHANGED notSession

\* time passes
Tick(d) ==
    /\ d > now - StartTime
    /\ d <= MaxElapsed
    /\ now' = StartTime + d
    /\ lastOp' = NoOp
    /\ calls' = <<>>
    /\ UNCHANGED <<cache, live, nextSid, agent, invocations>>
    /\ UNCHANGED notSession

\* the server ends a session by itself (idle timeout, crash of the app)
ServerExpire(s) ==
    /\ s \in live
    /\ live' = live \ {s}
    /\ lastOp' = NoOp
    /\ calls' = <<>>
    /\ UNCHANGED <<cache, nextSid, agent, invocations, now>>
    /\ UNCHANGED notSession

\* what an invocation can find in its cache file when a behaviour starts: no
\* file, a file that is not a JSON object, an object without "session_id" or
\* without "timestamp", or the descriptor an earlier invocation left behind
\* for the session PriorSid (the directory is at a fixed path and outlives
\* the invocations)
InitialFiles(cfg) ==
    {NoFile, Garbage, Descriptor(NoSid, cfg, StartTime),
     Descriptor(PriorSid, cfg, NoTs), Descriptor(PriorSid, cfg, StartTime)}

(***************************************************************************)
(* Element resolution: AppiumAgent.find_element                            *)
(***************************************************************************)

\* Times of this section are in ticks of 1/36 s, and timeouts are multiples
\* of 12 ticks, so that timeout / len(strategies) is exact for 3 and for 4
\* strategies.
TicksPerThird == 3 * 4                        \* ticks in a third of a second
MinStrategyTimeout == (3 * TicksPerThird) \div 2 \* the 0.5 s of max(0.5, ...)
MaxTimeoutThirds == 7   \* largest timeout of a call, in thirds of a second
MaxOverhead == 2        \* ticks an attempt can take beyond its wait budget
NumElems == 2           \* elements of the page

NoElem == 0
Platforms == {"ios", "android", "maccatalyst"}
Timeouts == {TicksPerThird * k : k \in 1..MaxTimeoutThirds}

Max(x, y) == IF x >= y THEN x ELSE y
Min(x, y) == IF x <= y THEN x ELSE y

\* the strategies list of find_element; a value is kept as the parts of the
\* string ("<app_id>:id/<identifier>" is <<app_id, ":id/", identifier>>)
Strategies_all_platforms(platform, app_id, identifier) ==
    << <<"accessibility id", <<identifier>> >>,
       <<"id", <<identifier>> >>,
       <<"name", <<identifier>> >>,
       <<"id", <<app_id, ":id/", identifier>> >> >>
Strategies(platform, app_id, identifier) ==
    LET base == << <<"accessibility id", <<identifier>> >>,
                   <<"id", <<identifier>> >>,
                   <<"name", <<identifier>> >> >>
    IN IF platform = "android"
       THEN Append(base, <<"id", <<app_id, ":id/", identifier>> >>)
       ELSE base

\* every locator find_element can send for the identifier
Locators(app_id, identifier) ==
    {Strategies("android", app_id, identifier)[j] : j \in 1..4}

\* per_strategy_timeout = max(0.5, timeout / len(strategies))
per_strategy_timeout_nomax(timeout, n) == timeout \div n
per_strategy_timeout(timeout, n) == Max(MinStrategyTimeout, timeout \div n)

\* strategy_timeout = min(per_strategy_timeout, timeout - elapsed)
strategy_timeout_nomin(timeout, n, elapsed) == per_strategy_timeout(timeout, n)
strategy_timeout(timeout, n, elapsed) ==
    Min(per_strategy_timeout(timeout, n), timeout - elapsed)

FindStrategies == Strategies(fcall.platform, fcall.app_id, fcall.identifier)

Attempt(j, budget, over, outcome) ==
    [idx |-> j, by |-> FindStrategies[j][1], value |-> FindStrategies[j][2],
     budget |-> budget, overhead |-> over, outcome |-> outcome]

\* One iteration of "for by, value in strategies". over: the time the
\* attempt takes beyond its budget (when it times out) or until the element
\* is returned (when it matches); err: the remote find fails with an error
\* other than NoSuchElementException / TimeoutException.
FindStep_nobreak(over, err) ==
    LET n == Len(FindStrategies)
        budget == strategy_timeout(fcall.timeout, n, felapsed)
        el == fcall.page[FindStrategies[fi]]
    IN
    /\ fresult = "pending"
    /\ fi <= n
    /\ fcall' = fcall
    /\ UNCHANGED notFind
    /\ IF felapsed >= fcall.timeout
       THEN \* "if elapsed >= timeout: break", then "return None"
            /\ fresult' = "notfound"
            /\ UNCHANGED <<fi, felapsed, fattempts, felem>>
       ELSE IF err
       THEN \* the exception leaves find_element
            /\ fresult' = "raised"
            /\ fattempts' = Append(fattempts, Attempt(fi, budget, over, "error"))
            /\ felapsed' = felapsed + over
            /\ UNCHANGED <<fi, felem>>
       ELSE IF el # NoElem /\ fi < n
       THEN \* the match is kept and the loop goes on
            /\ felem' = el
            /\ fattempts' = Append(fattempts, Attempt(fi, budget, over, "match"))
            /\ felapsed' = felapsed + over
            /\ fi' = fi + 1
            /\ fresult' = fresult
       ELSE IF el # NoElem
       THEN \* "return WebDriverWait(...).until(...)"
            /\ fresult' = "found"
            /\ felem' = el
            /\ fattempts' = Append(fattempts, Attempt(fi, budget, over, "match"))
            /\ felapsed' = felapsed + over
            /\ fi' = fi
       ELSE \* TimeoutException after the budget: "continue"
            /\ fattempts' = Append(fattempts, Attempt(fi, budget, over, "timeout"))
            /\ felapsed' = felapsed + budget + over
            /\ fi' = fi + 1
            /\ UNCHANGED <<fresult, felem>>
FindStep(over, err) ==
    LET n == Len(FindStrategies)
        budget == strategy_timeout(fcall.timeout, n, felapsed)
        el == fcall.page[FindStrategies[fi]]
    IN
    /\ fresult = "pending"
    /\ fi <= n
    /\ fcall' = fcall
    /\ UNCHANGED notFind
    /\ IF felapsed >= fcall.timeout
       THEN \* "if elapsed >= timeout: break", then "return None"
            /\ fresult' = "notfound"
            /\ UNCHANGED <<fi, felapsed, fattempts, felem>>
       ELSE IF err
       THEN \* the exception leaves find_element
            /\ fresult' = "raised"
            /\ fattempts' = Append(fattempts, Attempt(fi, budget, over, "error"))
            /\ felapsed' = felapsed + over
            /\ UNCHANGED <<fi, felem>>
       ELSE IF el # NoElem
       THEN \* "return WebDriverWait(...).until(...)"
            /\ fresult' = "found"
            /\ felem' = el
            /\ fattempts' = Append(fattempts, Attempt(fi, budget, over, "match"))
            /\ felapsed' = felapsed + over
            /\ fi' = fi
       ELSE \* TimeoutException after the budget: "continue"
            /\ fattempts' = Append(fattempts, Attempt(fi, budget, over, "timeout"))
            /\ felapsed' = felapsed + budget + over
            /\ fi' = fi + 1
            /\ UNCHANGED <<fresult, felem>>

\* the for loop ran out of strategies: "return None"
FindExhausted ==
    /\ fresult = "pending"
    /\ fi > Len(FindStrategies)
    /\ fresult' = "notfound"
    /\ UNCHANGED <<fcall, fi, felapsed, fattempts, felem>>
    /\ UNCHANGED notFind

FindCalls ==
    {[platform |-> p, app_id |-> "com.example.app", identifier |-> "Submit",
      timeout |-> t, page |-> pg] :
        p \in Platforms, t \in Timeouts,
        pg \in [Locators("com.example.app", "Submit") -> NoElem..NumElems]}

InitFind ==
    /\ fcall \in FindCalls
    /\ fi = 1
    /\ felapsed = 0
    /\ fattempts = <<>>
    /\ fresult = "pending"
    /\ felem = NoElem

IdleFind ==
    /\ fcall = [platform |-> "ios", app_id |-> "com.example.app",
                identifier |-> "Submit", timeout |-> TicksPerThird,
                page |-> [l \in Locators("com.example.app", "Submit") |-> NoElem]]
    /\ fi = 1
    /\ felapsed = 0
    /\ fattempts = <<>>
    /\ fresult = "pending"
    /\ felem = NoElem

NextFind ==
    \/ \E over \in 0..MaxOverhead, err \in BOOLEAN : FindStep(over, err)
    \/ FindExhausted

RECURSIVE SumBudgets(_)
SumBudgets(att) ==
    IF att = <<>> THEN 0 ELSE att[1].budget + SumBudgets(Tail(att))

NoStrategyMatches ==
    \A j \in 1..Len(FindStrategies) : fcall.page[FindStrategies[j]] = NoElem

LastOverhead ==
    IF fattempts = <<>> THEN 0 ELSE fattempts[Len(fattempts)].overhead

\* C6: when find_element(id, T) returns None and no strategy matches, the
\* wait budgets handed to the attempts sum to at most T, and the call has
\* lasted at most T plus the overhead of one (the last) attempt.
C6_TimeoutBound ==
    (fresult = "notfound" /\ NoStrategyMatches) =>
        /\ SumBudgets(fattempts) <= fcall.timeout
        /\ felapsed <= fcall.timeout + LastOverhead

\* a call on Android that timed out after several attempts, the last of
\* which was cut to the time remaining
C6_Witness ==
    /\ fresult = "notfound" /\ NoStrategyMatches
    /\ fcall.platform = "android"
    /\ Len(fattempts) >= 2
    /\ fattempts[Len(fattempts)].budget
          < per_strategy_timeout(fcall.timeout, Len(FindStrategies))

\* C7: find_element tries the strategies in list order and returns the
\* element of the first attempt that matches; no strategy after it is
\* attempted, and every strategy before it was attempted and did not match.
C7_FirstMatchWins ==
    /\ \A j \in 1..Len(fattempts) : fattempts[j].idx = j
    /\ fresult = "found" =>
          LET k == Len(fattempts) IN
          /\ k >= 1
          /\ \A j \in 1..(k - 1) :
                /\ fattempts[j].outcome = "timeout"
                /\ fcall.page[FindStrategies[j]] = NoElem
          /\ fattempts[k].outcome = "match"
          /\ felem # NoElem
          /\ felem = fcall.page[FindStrategies[k]]

\* a call that returned the element of its second or later strategy while a
\* strategy further down the list matches a different element
C7_Witness ==
    /\ fresult = "found"
    /\ Len(fattempts) >= 2
    /\ \E j \in (Len(fattempts) + 1)..Len(FindStrategies) :
          /\ fcall.page[FindStrategies[j]] # NoElem
          /\ fcall.page[FindStrategies[j]] # felem

\* the time elapsed since the call began when attempt j started: every
\* attempt before it ran through its budget and its overhead
RECURSIVE ElapsedBefore(_)
ElapsedBefore(j) ==
    IF j <= 1 THEN 0
    ELSE ElapsedBefore(j - 1) + fattempts[j - 1].budget + fattempts[j - 1].overhead

\* C25: in find_element(id, T) with strategy list S an attempt starts only
\* while the time elapsed since the call began is below T, and the budget of
\* each attempt is min(max(0.5 s, T / |S|), T - elapsed).
C25_AttemptBudget ==
    \A j \in 1..Len(fattempts) :
        LET elapsed == ElapsedBefore(j)
            share == fcall.timeout \div Len(FindStrategies)
            floor == IF share >= MinStrategyTimeout THEN share
                     ELSE MinStrategyTimeout
            remaining == fcall.timeout - elapsed
        IN /\ elapsed < fcall.timeout
           /\ fattempts[j].budget =
                 IF floor <= remaining THEN floor ELSE remaining

\* a call whose first attempt got the 0.5 s floor (above T / |S|) and whose
\* last attempt was cut to the time remaining
C25_Witness ==
    /\ Len(fattempts) >= 2
    /\ fcall.timeout \div Len(FindStrategies) < MinStrategyTimeout
    /\ fattempts[1].budget = MinStrategyTimeout
    /\ fattempts[Len(fattempts)].budget < MinStrategyTimeout
    /\ fattempts[Len(fattempts)].budget
          = fcall.timeout - ElapsedBefore(Len(fattempts))

\* C29: the expansion of an identifier is accessibility-id, id, name with
\* the identifier itself on every platform, followed on Android only by id
\* with "<app_id>:id/<identifier>"; the page and the timeout have no part
\* in it, and the attempts of a call use its entries in this order.
C29_Expansion ==
    LET base == << <<"accessibility id", <<fcall.identifier>> >>,
                   <<"id", <<fcall.identifier>> >>,
                   <<"name", <<fcall.identifier>> >> >>
        qualified == <<"id", <<fcall.app_id, ":id/", fcall.identifier>> >>
        expected == IF fcall.platform = "android"
                    THEN base \o <<qualified>> ELSE base
    IN /\ FindStrategies = expected
       /\ \A j \in 1..Len(fattempts) :
             <<fattempts[j].by, fattempts[j].value>> = expected[j]

\* an Android call that went through the whole expansion, and so attempted
\* the package-qualified id last
C29_Witness ==
    /\ fcall.platform = "android"
    /\ Len(fattempts) = 4
    /\ fattempts[4].by = "id"
    /\ fattempts[4].value = <<fcall.app_id, ":id/", fcall.identifier>>
    /\ fresult = "notfound"

\* C31: find_element(id, T) returns None only if no strategy of the
\* expansion matches: a strategy that matches the element throughout the
\* call is attempted, and an element is returned.
C31_NotFoundOnlyIfNoMatch ==
    fresult = "notfound" => NoStrategyMatches

InitSession ==
    /\ cache \in [CacheKeys -> UNION {InitialFiles(c) : c \in Configs}]
    /\ \A c \in Configs :
          cache[get_session_cache_key(c)] \in
              IF c \in AgentConfigs THEN InitialFiles(c) ELSE {NoFile}
    /\ live \in SUBSET {PriorSid}
    /\ nextSid = 1
    /\ agent \in [Agents -> {Constructed(c, r, k) :
                                c \in AgentConfigs, r \in BOOLEAN, k \in BOOLEAN}]
    /\ now = StartTime
    /\ invocations = Cardinality(Agents)
    /\ calls = <<>>
    /\ lastOp = NoOp

AllProbes == {"ok200"} \cup ProbeFailures \cup ProbeMalformed
AllQuits == {"ok", "transport_error", "invalid_session"}

NextSession ==
    \/ \E a \in Agents, p \in AllProbes, c \in BOOLEAN, w \in BOOLEAN :
          connect(a, p, c, w)
    \/ \E a \in Agents, q \in AllQuits : disconnect(a, q)
    \/ \E a \in Agents, cfg \in AgentConfigs, r \in BOOLEAN, k \in BOOLEAN :
          NewInvocation(a, cfg, r, k)
    \/ \E d \in TimeOffsets : Tick(d)
    \/ \E s \in SessionIds : ServerExpire(s)

TypeOKSession ==
    /\ live \subseteq SessionIds
    /\ nextSid \in 1..(MaxSessions + 1)
    /\ \A a \in Agents : agent[a].driver \in {NoSid} \cup SessionIds

\* ---- properties of the session lifecycle ----
Key(a) == get_session_cache_key(agent[a].cfg)

ByConnect(a) == lastOp.op = "connect" /\ lastOp.agent = a
ByDisconnect(a) == lastOp.op = "disconnect" /\ lastOp.agent = a

\* the remote calls of the most recent handler that are of one kind
CallsOf(kind) == SelectSeq(calls, LAMBDA c : c[1] = kind)

\* the most recent handler found a descriptor with a session id in the file
FoundDescriptor == lastOp.before.kind = "dict" /\ lastOp.before.session_id # NoSid

\* age of that descriptor, as _load_cached_session computes it
AgeFound ==
    now - (IF lastOp.before.timestamp = NoTs THEN 0 ELSE lastOp.before.timestamp)

\* the answer the most recent handler got to its liveness probe
ProbeAnswered(answers) ==
    /\ CallsOf("GET") # <<>>
    /\ CallsOf("GET")[1][3] \in answers

\* C1 as stated: with reuse_session set, a descriptor not older than 300 s
\* and a probe answered with HTTP 200, connect() binds the handle to the
\* cached session id and issues no session-creation call.
C1_Original ==
    \A a \in Agents :
        (/\ ByConnect(a) /\ agent[a].reuse_session
         /\ FoundDescriptor /\ AgeFound <= SessionTTL
         /\ ProbeAnswered({"ok200"} \cup ProbeMalformed))
        => /\ agent[a].driver = lastOp.before.session_id
           /\ CallsOf("POST_session") = <<>>

\* C1 (amended): the same when the HTTP 200 answer carries a body that
\* parses as a JSON object whose "value", if present, is an object.
C1_ReattachNoCreate ==
    \A a \in Agents :
        (/\ ByConnect(a) /\ agent[a].reuse_session
         /\ FoundDescriptor /\ AgeFound <= SessionTTL
         /\ ProbeAnswered({"ok200"}))
        => /\ agent[a].driver = lastOp.before.session_id
           /\ agent[a].session_reused
           /\ CallsOf("POST_session") = <<>>

\* a connect() that reattached to the cached session
C1_Witness ==
    \E a \in Agents :
        /\ ByConnect(a) /\ agent[a].reuse_session
        /\ FoundDescriptor /\ AgeFound <= SessionTTL
        /\ ProbeAnswered({"ok200"})
        /\ agent[a].pc = "connected"
        /\ agent[a].driver = lastOp.before.session_id

\* C2: with reuse_session set and a cached descriptor that is older than
\* 300 s, or whose probe fails (transport error, HTTP error status, status
\* other than 200), the descriptor is gone from the cache (the file is
\* absent, or holds the descriptor of the session just created), exactly one
\* session-creation call is issued, and connect() raises only if that
\* creation (or the implicitly_wait that follows it) fails.
C2_FallbackToFresh ==
    \A a \in Agents :
        (/\ ByConnect(a) /\ agent[a].reuse_session /\ FoundDescriptor
         /\ \/ AgeFound > SessionTTL
            \/ ProbeAnswered(ProbeFailures))
        => /\ Len(CallsOf("POST_session")) = 1
           /\ cache[Key(a)] # lastOp.before
           /\ \/ cache[Key(a)].kind = "none"
              \/ /\ cache[Key(a)].kind = "dict"
                 /\ cache[Key(a)].session_id = agent[a].driver
                 /\ cache[Key(a)].session_id # lastOp.before.session_id
                 /\ cache[Key(a)].session_id = CallsOf("POST_session")[1][2]
           /\ lastOp.raised => calls[Len(calls)][3] = "error"
           /\ lastOp.raised =>
                 calls[Len(calls)][1] \in {"POST_session", "POST_timeouts"}
           /\ AgeFound > SessionTTL => CallsOf("GET") = <<>>

\* a connect() whose probe of a fresh descriptor failed and that went on to
\* create a session
C2_Witness ==
    \E a \in Agents :
        /\ ByConnect(a) /\ agent[a].reuse_session /\ FoundDescriptor
        /\ AgeFound <= SessionTTL
        /\ ProbeAnswered(ProbeFailures)
        /\ agent[a].pc = "connected"
        /\ ~agent[a].session_reused

\* a connect() that found a descriptor older than 300 s
C2_WitnessStale ==
    \E a \in Agents :
        /\ ByConnect(a) /\ agent[a].reuse_session /\ FoundDescriptor
        /\ lastOp.before.timestamp # NoTs
        /\ AgeFound > SessionTTL
        /\ agent[a].pc = "connected"

\* C8: disconnect() with keep_session set and a handle held issues no remote
\* call, leaves the session as live as it was, writes the descriptor of the
\* handle's session id with the current time, and drops the handle.
C8_KeepDisconnect ==
    \A a \in Agents :
        (ByDisconnect(a) /\ agent[a].keep_session /\ lastOp.had # NoSid)
        => /\ calls = <<>>
           /\ (lastOp.had \in live) = lastOp.hadLive
           /\ cache[Key(a)] = Descriptor(lastOp.had, agent[a].cfg, now)
           /\ agent[a].driver = NoSid
           /\ ~lastOp.raised

\* a keep_session disconnect() that refreshed an older descriptor of a live
\* session
C8_Witness ==
    \E a \in Agents :
        /\ ByDisconnect(a) /\ agent[a].keep_session /\ lastOp.had # NoSid
        /\ lastOp.had \in live
        /\ lastOp.before.kind = "dict"
        /\ lastOp.before.session_id = lastOp.had
        /\ lastOp.before.timestamp # NoTs
        /\ lastOp.before.timestamp < now

\* C9: disconnect() with keep_session unset and a handle held issues a
\* remote session-termination call, and afterwards the cache holds no
\* descriptor for the agent's fingerprint.
C9_QuitClearsCache ==
    \A a \in Agents :
        (ByDisconnect(a) /\ ~agent[a].keep_session /\ lastOp.had # NoSid)
        => /\ Len(CallsOf("DELETE")) = 1
           /\ CallsOf("DELETE")[1][2] = lastOp.had
           /\ cache[Key(a)].kind = "none"

\* C10: after connect() returns with keep_session set, reattached or fresh,
\* the cache holds a descriptor whose session id is that of the handle.
C10_KeepConnectCached ==
    \A a \in Agents :
        (ByConnect(a) /\ ~lastOp.raised /\ agent[a].keep_session)
        => /\ agent[a].driver # NoSid
           /\ cache[Key(a)].kind = "dict"
           /\ cache[Key(a)].session_id = agent[a].driver
           /\ cache[Key(a)].timestamp = now

\* a keep_session connect() that created a session although the file held
\* the descriptor of another one
C10_Witness ==
    \E a \in Agents :
        /\ ByConnect(a) /\ ~lastOp.raised /\ agent[a].keep_session
        /\ ~agent[a].session_reused
        /\ FoundDescriptor
        /\ lastOp.before.session_id # agent[a].driver

\* a keep_session connect() that reattached
C10_WitnessReused ==
    \E a \in Agents :
        /\ ByConnect(a) /\ ~lastOp.raised /\ agent[a].keep_session
        /\ agent[a].session_reused

\* the invocation is inside its with block, holding a handle bound to sid
Holds(a, sid) ==
    agent[a].pc = "connected" /\ sid # NoSid /\ agent[a].driver = sid

\* C12: no two invocations hold, at the same time, handles bound to the same
\* remote session id.
C12_ExclusiveHandles ==
    \A a, b \in Agents :
        a # b => ~(\E sid \in SessionIds : Holds(a, sid) /\ Holds(b, sid))

\* C13: no invocation is left holding a handle to a session that another
\* invocation has terminated: when a disconnect() has just ended a session
\* on the server, no other invocation holds a handle bound to it.
C13_ProbeKeepsHandlesLive ==
    \A b \in Agents :
        (/\ ByDisconnect(b)
         /\ CallsOf("DELETE") # <<>>
         /\ CallsOf("DELETE")[1][3] = "ok")
        => \A a \in Agents \ {b} : ~Holds(a, CallsOf("DELETE")[1][2])

\* C26: _load_cached_session returns the stored descriptor exactly when
\* now - timestamp <= 300 s (300 s included); when now - timestamp > 300 s
\* or the record has no timestamp it deletes the file and returns None, so
\* that connect() never probes for a descriptor older than 300 s.
C26_TTLBoundary ==
    \A a \in Agents :
        (ByConnect(a) /\ agent[a].reuse_session /\ lastOp.before.kind = "dict")
        => LET ld == load_cached_session(lastOp.before, now)
               ts == lastOp.before.timestamp
               recent == ts # NoTs /\ now - ts <= SessionTTL
           IN /\ recent => ld.data = lastOp.before /\ ld.file = lastOp.before
              /\ ~recent => /\ ld.data = NoFile /\ ld.file = NoFile
                            /\ CallsOf("GET") = <<>>
                            /\ cache[Key(a)] # lastOp.before
              /\ (recent /\ lastOp.before.session_id # NoSid) =>
                    /\ CallsOf("GET") # <<>>
                    /\ CallsOf("GET")[1][2] = lastOp.before.session_id

\* a connect() that found a descriptor exactly 300 s old and probed for its
\* session
C26_Witness ==
    \E a \in Agents :
        /\ ByConnect(a) /\ agent[a].reuse_session
        /\ FoundDescriptor
        /\ lastOp.before.timestamp # NoTs
        /\ now - lastOp.before.timestamp = SessionTTL
        /\ CallsOf("GET") # <<>>

\* a connect() that found a descriptor 301 s old, deleted it and created a
\* session without probing
C26_WitnessStale ==
    \E a \in Agents :
        /\ ByConnect(a) /\ agent[a].reuse_session
        /\ FoundDescriptor
        /\ lastOp.before.timestamp # NoTs
        /\ now - lastOp.before.timestamp = SessionTTL + 1
        /\ CallsOf("GET") = <<>>

\* the file the most recent handler found cannot be used as a descriptor:
\* it cannot be read or parsed or is not an object, or it is an object
\* without "session_id" or without "timestamp"
FoundMalformed ==
    \/ lastOp.before.kind = "garbage"
    \/ /\ lastOp.before.kind = "dict"
       /\ lastOp.before.session_id = NoSid \/ lastOp.before.timestamp = NoTs

\* connect() went on to create a session without probing, and raised only
\* if the creation or the implicitly_wait after it failed
FreshWithoutProbe ==
    /\ CallsOf("GET") = <<>>
    /\ Len(CallsOf("POST_session")) = 1
    /\ lastOp.raised => /\ calls[Len(calls)][3] = "error"
                        /\ calls[Len(calls)][1] \in {"POST_session", "POST_timeouts"}

\* C17 as stated: for every file that cannot be used as a descriptor,
\* _load_cached_session returns None, and connect() creates a fresh session.
C17_Original ==
    \A a \in Agents :
        (ByConnect(a) /\ agent[a].reuse_session /\ FoundMalformed)
        => /\ load_cached_session(lastOp.before, now).data = NoFile
           /\ FreshWithoutProbe

\* C17 (amended): no such file makes connect() raise or probe, and connect()
\* creates a fresh session; _load_cached_session returns None for it, except
\* for an object that has a recent "timestamp" but no "session_id", which it
\* returns and which _try_reuse_session rejects, deleting the file. A file
\* that is not an object is left on disk by the load, an object without
\* "timestamp" is deleted by it.
C17_CacheErrorsFailOpen ==
    \A a \in Agents :
        (ByConnect(a) /\ agent[a].reuse_session /\ FoundMalformed)
        => /\ FreshWithoutProbe
           /\ ~agent[a].session_reused
           /\ LET ld == load_cached_session(lastOp.before, now)
                  sidOnlyMissing ==
                      /\ lastOp.before.kind = "dict"
                      /\ lastOp.before.timestamp # NoTs
                      /\ now - lastOp.before.timestamp <= SessionTTL
              IN /\ ld.data = NoFile <=> ~sidOnlyMissing
                 /\ lastOp.before.kind = "garbage" => ld.file = lastOp.before
                 /\ lastOp.before.kind = "dict" =>
                       cache[Key(a)] # lastOp.before

\* a connect() that found an object with a recent timestamp and no session
\* id, and created a session
C17_Witness ==
    \E a \in Agents :
        /\ ByConnect(a) /\ agent[a].reuse_session
        /\ lastOp.before = Descriptor(NoSid, agent[a].cfg, now)
        /\ agent[a].pc = "connected"
        /\ cache[Key(a)].kind = "none"

\* C18: when the creation of a fresh session fails, connect() raises, no
\* descriptor is written to the cache, the agent holds no handle, and the
\* with block of main() is not entered (no action is executed).
C18_CreateFailureClean ==
    \A a \in Agents :
        (/\ ByConnect(a)
         /\ CallsOf("POST_session") # <<>>
         /\ CallsOf("POST_session")[1][3] = "error")
        => /\ lastOp.raised
           /\ agent[a].pc = "failed"
           /\ cache[Key(a)] \in {lastOp.before, NoFile}
           /\ agent[a].driver = NoSid

\* the server sessions that connect() calls of this behaviour created
CreatedSessions == 1..(nextSid - 1)

\* sid is named by a descriptor of the cache
Cached(sid) ==
    \E k \in CacheKeys : cache[k].kind = "dict" /\ cache[k].session_id = sid

\* C32: after any sequence of connect() and disconnect() calls, every remote
\* session that the tool created and that has not been terminated is named
\* by a handle some invocation holds or by a descriptor in the cache.
C32_NoOrphanSessions ==
    \A s \in CreatedSessions \cap live :
        (\E a \in Agents : Holds(a, s)) \/ Cached(s)

\* C34: after any call to disconnect(), whatever keep_session is and whatever
\* the server answers to the termination call, the agent holds no handle,
\* and a further disconnect() issues no remote call and leaves the cache
\* unchanged.
C34_DisconnectDropsHandle ==
    /\ [](\A a \in Agents : ByDisconnect(a) => agent[a].driver = NoSid)
    /\ [][\A a \in Agents, q \in AllQuits :
            (agent[a].pc = "disconnected" /\ disconnect(a, q))
            => (calls' = <<>> /\ cache' = cache)]_vars

\* C36: an invocation with keep_session unset never writes a descriptor to
\* the cache: after its connect() the cache record is the one connect()
\* found, or there is none.
C36_ConnectWritesOnlyIfKeep ==
    \A a \in Agents :
        (ByConnect(a) /\ ~agent[a].keep_session)
        => \/ cache[Key(a)] = lastOp.before
           \/ cache[Key(a)].kind # "dict"

IdleSession ==
    /\ cache = [k \in CacheKeys |-> NoFile]
    /\ live = {}
    /\ nextSid = 1
    /\ agent = [a \in Agents |-> Constructed(CfgA, FALSE, FALSE)]
    /\ invocations = Cardinality(Agents)
    /\ now = StartTime
    /\ calls = <<>>
    /\ lastOp = NoOp

(***************************************************************************)
(* Argument parsing: parse_ordered_actions                                 *)
(***************************************************************************)

MaxArgvLen == 4         \* longest argument list drawn (besides the examples)

\* the table action_args: flag -> number of arguments (-1: --drag)
VarArgs == 0 - 1
action_args ==
    [f \in {"--tap", "--tap-button", "--tap-text", "--tap-like", "--double-tap",
            "--long-press", "--get-text", "--exists", "--clear", "--is-enabled",
            "--is-visible", "--wait", "--wait-for", "--press-key", "--swipe",
            "--scroll", "--scroll-to", "--install", "--screenshot",
            "--find-text", "--get-rect"} |-> 1]
    @@ [f \in {"--type", "--expect", "--tap-coords", "--set-slider"} |-> 2]
    @@ [f \in {"--dismiss-keyboard", "--accept-alert", "--dismiss-alert",
               "--get-alert", "--activate", "--terminate", "--page-source",
               "--list-buttons", "--list-elements"} |-> 0]
    @@ [f \in {"--drag"} |-> VarArgs]

ActionFlags == DOMAIN action_args

\* the order in which main() declares the action flags to argparse
SchemaOrder ==
    <<"--tap", "--tap-button", "--tap-text", "--tap-like", "--double-tap",
      "--long-press", "--type", "--clear", "--get-text", "--exists",
      "--is-enabled", "--is-visible", "--expect", "--wait", "--wait-for",
      "--dismiss-keyboard", "--press-key", "--accept-alert", "--dismiss-alert",
      "--get-alert", "--swipe", "--scroll", "--scroll-to", "--tap-coords",
      "--drag", "--set-slider", "--activate", "--terminate", "--install",
      "--screenshot", "--page-source", "--list-buttons", "--list-elements",
      "--find-text", "--get-rect">>

\* flags of main() that are not actions
OtherFlags == {"--platform", "--app-id", "--udid", "--appium-url", "--app-path",
               "--keep-session", "--reuse-session"}

\* arg.startswith('--'), over the tokens of the model
StartsWithDashes(tok) == tok \in ActionFlags \cup OtherFlags

\* the second member of an output tuple: None, one token, or a list
NonePayload == [shape |-> "none", items |-> <<>>]
Scalar(tok) == [shape |-> "scalar", items |-> <<tok>>]
List(toks) == [shape |-> "list", items |-> toks]

\* argv[m:n] of Python for the positions m+1..n counted from 1
Slice(argv, first, last) == SubSeq(argv, first, Min(last, Len(argv)))

\* the inner while loop of --drag: the position j at which it stops
RECURSIVE DragEnd(_, _, _)
DragEnd(argv, j, taken) ==
    IF j <= Len(argv) /\ ~StartsWithDashes(argv[j]) /\ taken < 4
    THEN DragEnd(argv, j + 1, taken + 1)
    ELSE j

\* the position at which the collection for the --drag at position i stops
drag_values_end_past_flags(argv, i) == Min(i + 5, Len(argv) + 1)
drag_values_end(argv, i) == DragEnd(argv, i + 1, 0)

\* the while loop of parse_ordered_actions from position i (counted from 1).
\* An output tuple (arg, value) is [flag, value]; its field at is the
\* position i at which the tuple was appended, kept for the properties.
RECURSIVE ParseFrom(_, _)
ParseFrom(argv, i) ==
    IF i > Len(argv) THEN <<>>
    ELSE LET arg == argv[i] IN
         IF arg \in ActionFlags
         THEN LET num_args == action_args[arg] IN
              IF num_args = 0
              THEN <<[flag |-> arg, value |-> NonePayload, at |-> i]>>
                       \o ParseFrom(argv, i + 1)
              ELSE IF num_args = VarArgs
              THEN LET j == drag_values_end(argv, i) IN
                   <<[flag |-> arg, value |-> List(Slice(argv, i + 1, j - 1)),
                      at |-> i]>> \o ParseFrom(argv, j)
              ELSE LET values == Slice(argv, i + 1, i + num_args) IN
                   <<[flag |-> arg,
                      value |-> IF Len(values) = 1 THEN Scalar(values[1])
                                ELSE List(values),
                      at |-> i]>> \o ParseFrom(argv, i + 1 + num_args)
         ELSE ParseFrom(argv, i + 1)

RECURSIVE BySchema(_, _)
BySchema(out, n) ==
    IF n > Len(SchemaOrder) THEN <<>>
    ELSE SelectSeq(out, LAMBDA a : a.flag = SchemaOrder[n]) \o BySchema(out, n + 1)

parse_ordered_actions_by_schema(argv) == BySchema(ParseFrom(argv, 1), 1)
parse_ordered_actions(argv) == ParseFrom(argv, 1)

\* the tokens argument lists are drawn from
Tokens == {"--wait-for", "--tap", "--wait", "--type", "--drag",
           "--dismiss-keyboard", "--platform", "A", "B", "1", "ios"}

RECURSIVE SeqsUpTo(_, _)
SeqsUpTo(S, n) ==
    IF n = 0 THEN {<<>>}
    ELSE LET shorter == SeqsUpTo(S, n - 1) IN
         shorter \cup {Append(q, x) : q \in {r \in shorter : Len(r) = n - 1}, x \in S}

ExampleArgv == <<"--wait-for", "A", "--tap", "B", "--wait", "1">>
\* --drag ID OFFSET_X OFFSET_Y DURATION, followed by another action
DragExampleArgv == <<"--drag", "A", "1", "1", "1", "--tap", "B">>
Argvs == SeqsUpTo(Tokens, MaxArgvLen) \cup {ExampleArgv, DragExampleArgv}

\* ordered_actions = parse_ordered_actions(sys.argv)
Parse ==
    /\ ~pdone
    /\ pout' = parse_ordered_actions(pargv)
    /\ pdone' = TRUE
    /\ pargv' = pargv
    /\ UNCHANGED notParse

InitParse ==
    /\ pargv \in Argvs
    /\ pout = <<>>
    /\ pdone = FALSE

IdleParse ==
    /\ pargv = <<>>
    /\ pout = <<>>
    /\ pdone = FALSE

\* C5: parse_ordered_actions returns the actions in the left-to-right order
\* of their flags in argv: each action stands for the flag at its own argv
\* position, and of two actions the one with the smaller position is first.
C5_OrderPreserved ==
    pdone =>
        /\ \A p \in 1..Len(pout) :
              /\ pout[p].at \in 1..Len(pargv)
              /\ pargv[pout[p].at] = pout[p].flag
        /\ \A p, q \in 1..Len(pout) : p < q => pout[p].at < pout[q].at
        /\ pargv = ExampleArgv =>
              /\ Len(pout) = 3
              /\ pout[1].flag = "--wait-for" /\ pout[1].value = Scalar("A")
              /\ pout[2].flag = "--tap" /\ pout[2].value = Scalar("B")
              /\ pout[3].flag = "--wait" /\ pout[3].value = Scalar("1")

\* the example argument list has been parsed
C5_Witness ==
    /\ pdone
    /\ pargv = ExampleArgv
    /\ Len(pout) = 3

\* C23: every action parse_ordered_actions produces carries a payload of
\* the shape its flag's arity prescribes: none for arity 0, one token for
\* arity 1, a list of exactly two tokens for arity 2, a list of three or
\* four tokens for --drag.
C23_PayloadShapes ==
    pdone =>
        \A p \in 1..Len(pout) :
            LET n == action_args[pout[p].flag]
                v == pout[p].value
            IN /\ n = 0 => v = NonePayload
               /\ n = 1 => v.shape = "scalar"
               /\ n = 2 => v.shape = "list" /\ Len(v.items) = 2
               /\ n = VarArgs => v.shape = "list" /\ Len(v.items) \in {3, 4}

\* the position of the first action flag of argv at or after position m,
\* Len(argv) + 1 when there is none
RECURSIVE NextActionFlag(_, _)
NextActionFlag(argv, m) ==
    IF m > Len(argv) THEN Len(argv) + 1
    ELSE IF argv[m] \in ActionFlags THEN m
    ELSE NextActionFlag(argv, m + 1)

\* C28: the payload of a --drag is the run of tokens after the flag that
\* ends at the fourth token, or before a token beginning with "--", or at
\* the end of the list; parsing resumes at the token where the run stopped,
\* so a flag that ends the payload is itself parsed as the next action.
C28_DragCollection ==
    pdone =>
        \A p \in 1..Len(pout) :
            pout[p].flag = "--drag" =>
                LET at == pout[p].at
                    items == pout[p].value.items
                    k == Len(items)
                    stop == at + k + 1
                    resumed == NextActionFlag(pargv, stop)
                IN /\ pout[p].value.shape = "list"
                   /\ k <= 4
                   /\ at + k <= Len(pargv)
                   /\ \A m \in 1..k :
                         /\ items[m] = pargv[at + m]
                         /\ ~StartsWithDashes(pargv[at + m])
                   /\ \/ k = 4
                      \/ stop > Len(pargv)
                      \/ StartsWithDashes(pargv[stop])
                   /\ IF resumed <= Len(pargv)
                      THEN p < Len(pout) /\ pout[p + 1].at = resumed
                      ELSE p = Len(pout)

\* a --drag whose payload was ended by an action flag before the fourth
\* token, and that flag is the next action
C28_Witness ==
    /\ pdone
    /\ Len(pout) >= 2
    /\ pout[1].flag = "--drag"
    /\ Len(pout[1].value.items) \in 1..3
    /\ pout[2].at = pout[1].at + Len(pout[1].value.items) + 1

\* ---- parser.parse_args(), which main() runs before parse_ordered_actions ----
\* nargs of the add_argument call of a flag (OneOrMore for nargs='+')
OneOrMore == 0 - 1
argparse_nargs(flag) ==
    IF flag = "--drag" THEN OneOrMore
    ELSE IF flag \in ActionFlags THEN action_args[flag]
    ELSE IF flag \in {"--keep-session", "--reuse-session"} THEN 0
    ELSE 1

\* type= and choices= of the flag accept the token
argparse_value_ok(flag, tok) ==
    IF flag = "--wait" THEN tok = "1"
    ELSE IF flag = "--platform" THEN tok \in Platforms
    ELSE TRUE

\* the number of tokens from position j on that are not option strings
RECURSIVE ValuesFrom(_, _)
ValuesFrom(argv, j) ==
    IF j <= Len(argv) /\ ~StartsWithDashes(argv[j])
    THEN 1 + ValuesFrom(argv, j + 1) ELSE 0

\* parse_args returns (rather than printing the usage and exiting with 2)
\* for the arguments from position i on: every token is an option string
\* followed by as many values as its nargs asks for, and a value is never
\* an option string
RECURSIVE argparse_accepts_from(_, _, _)
argparse_accepts_from(argv, i, anyValue) ==
    IF i > Len(argv) THEN TRUE
    ELSE IF ~StartsWithDashes(argv[i]) THEN FALSE
    ELSE LET n == argparse_nargs(argv[i])
             avail == IF anyValue THEN Len(argv) - i ELSE ValuesFrom(argv, i + 1)
         IN IF n = OneOrMore
            THEN /\ avail >= 1
                 /\ argparse_accepts_from(argv, i + 1 + ValuesFrom(argv, i + 1),
                                          anyValue)
            ELSE /\ avail >= n
                 /\ \A m \in 1..n : argparse_value_ok(argv[i], argv[i + m])
                 /\ argparse_accepts_from(argv, i + 1 + n, anyValue)

argparse_accepts_any_value(argv) == argparse_accepts_from(argv, 1, TRUE)
argparse_accepts(argv) == argparse_accepts_from(argv, 1, FALSE)

\* the positions of argv that hold a known action flag
FlagPositions(argv) == {m \in 1..Len(argv) : argv[m] \in ActionFlags}

\* C35 as stated: for every argument list, every occurrence of a known
\* action flag yields its own action in the output of
\* parse_ordered_actions, and is never taken as payload.
C35_Original ==
    pdone => FlagPositions(pargv) = {pout[p].at : p \in 1..Len(pout)}

\* C35 (amended): the same for every argument list that parse_args accepts,
\* which are the lists main() goes on to hand to parse_ordered_actions.
C35_FlagsOfAcceptedArgv ==
    (pdone /\ argparse_accepts(pargv)) =>
        FlagPositions(pargv) = {pout[p].at : p \in 1..Len(pout)}

\* an accepted argument list with a two-argument action followed by a
\* flag, both parsed as actions
C35_Witness ==
    /\ pdone
    /\ argparse_accepts(pargv)
    /\ Len(pout) = 2
    /\ pout[1].flag = "--type" /\ pout[1].value.shape = "list"
    /\ pout[2].at = 4

(***************************************************************************)
(* The action loop of main(): execute_action and the handlers              *)
(***************************************************************************)

MaxActions == 4         \* longest list of actions of a run

NoExit == 0 - 1         \* the process is still running

\* Handlers whose agent method wraps all its remote calls in a blanket
\* try/except (scroll, dismiss_keyboard, press_key, accept_alert,
\* dismiss_alert, get_alert_text): no exception leaves them.
CatchAllFlags == {"--scroll", "--dismiss-keyboard", "--press-key",
                  "--accept-alert", "--dismiss-alert", "--get-alert"}

\* What ACTION_HANDLERS[flag](agent, value) can do:
\*   "ok"          the operation was performed, the handler returns True
\*   "miss"        target not found / operation reported failed, returns True
\*   "assert_fail" _handle_expect returns False
\*   "raise"       a remote call (or a conversion of the payload) raises and
\*                 the exception leaves the handler
HandlerOutcomes(flag) ==
    IF flag = "--expect" THEN {"ok", "assert_fail", "raise"}
    ELSE IF flag \in CatchAllFlags THEN {"ok", "miss"}
    ELSE IF flag = "--wait" THEN {"ok", "raise"}
    ELSE {"ok", "miss", "raise"}

\* the value execute_action returns
execute_action(flag, outcome) == outcome # "assert_fail"

\* flags the runs of the model are made of
RunFlags == {"--tap", "--expect", "--swipe", "--scroll"}

Executed(k, outcome) == [idx |-> k, flag |-> ractions[k], outcome |-> outcome]

\* "if not args.platform or not args.app_id: parser.error(...)":
\* ArgumentParser.error prints the usage and exits with status 2
RunValidate(hasPlatform, hasAppId) ==
    /\ rpc = "args"
    /\ rpc' = IF hasPlatform /\ hasAppId THEN "appium" ELSE "usage_error"
    /\ rexit' = IF hasPlatform /\ hasAppId THEN NoExit ELSE 2
    /\ UNCHANGED <<ractions, rpos, rexecuted, rdisconnects>>
    /\ UNCHANGED notRun

\* "if not is_appium_running(...): try: start_appium() except: sys.exit(1)"
RunEnsureAppium(running, started) ==
    /\ rpc = "appium"
    /\ rpc' = IF running \/ started THEN "start" ELSE "exited"
    /\ rexit' = IF running \/ started THEN NoExit ELSE 1
    /\ UNCHANGED <<ractions, rpos, rexecuted, rdisconnects>>
    /\ UNCHANGED notRun

\* "with AppiumAgent(...) as agent": __enter__ calls connect()
RunConnect(ok) ==
    /\ rpc = "start"
    /\ rpc' = IF ok THEN "loop" ELSE "exited"
    /\ rexit' = IF ok THEN NoExit ELSE 1
    /\ UNCHANGED <<ractions, rpos, rexecuted, rdisconnects>>
    /\ UNCHANGED notRun

\* the same without the context manager's __exit__ on the early return
RunFinish_return_skips_exit(discOk) ==
    /\ rpc = "loop"
    /\ rpos > Len(ractions)
    /\ rpc' = "exited"
    /\ rdisconnects' = IF ractions = <<>> THEN rdisconnects ELSE rdisconnects + 1
    /\ rexit' = IF discOk \/ ractions = <<>> THEN 0 ELSE 1
    /\ UNCHANGED <<ractions, rpos, rexecuted>>
    /\ UNCHANGED notRun
\* "if not ordered_actions: ... return", or the for loop is over; __exit__
\* calls disconnect(), which raises when discOk is false
RunFinish(discOk) ==
    /\ rpc = "loop"
    /\ rpos > Len(ractions)
    /\ rpc' = "exited"
    /\ rdisconnects' = rdisconnects + 1
    /\ rexit' = IF discOk THEN 0 ELSE 1
    /\ UNCHANGED <<ractions, rpos, rexecuted>>
    /\ UNCHANGED notRun

\* one iteration of "for action, value in ordered_actions"
RunExecute_noexit(outcome) ==
    /\ rpc = "loop"
    /\ rpos <= Len(ractions)
    /\ outcome \in HandlerOutcomes(ractions[rpos])
    /\ rexecuted' = Append(rexecuted, Executed(rpos, outcome))
    /\ ractions' = ractions
    /\ UNCHANGED notRun
    /\ IF outcome = "raise"
       THEN /\ rpc' = "exited"
            /\ rexit' = 1
            /\ rdisconnects' = rdisconnects + 1
            /\ rpos' = rpos
       ELSE /\ rpos' = rpos + 1
            /\ UNCHANGED <<rpc, rexit, rdisconnects>>
RunExecute(outcome) ==
    /\ rpc = "loop"
    /\ rpos <= Len(ractions)
    /\ outcome \in HandlerOutcomes(ractions[rpos])
    /\ rexecuted' = Append(rexecuted, Executed(rpos, outcome))
    /\ ractions' = ractions
    /\ UNCHANGED notRun
    /\ IF outcome = "raise"
       THEN \* the exception leaves the with block: __exit__, then a traceback
            /\ rpc' = "exited"
            /\ rexit' = 1
            /\ rdisconnects' = rdisconnects + 1
            /\ rpos' = rpos
       ELSE IF ~execute_action(ractions[rpos], outcome)
       THEN \* "if not success: sys.exit(1)"; SystemExit passes __exit__
            /\ rpc' = "exited"
            /\ rexit' = 1
            /\ rdisconnects' = rdisconnects + 1
            /\ rpos' = rpos
       ELSE /\ rpos' = rpos + 1
            /\ UNCHANGED <<rpc, rexit, rdisconnects>>

InitRun ==
    /\ ractions \in SeqsUpTo(RunFlags, MaxActions)
    /\ rpc = "args"
    /\ rpos = 1
    /\ rexecuted = <<>>
    /\ rexit = NoExit
    /\ rdisconnects = 0

IdleRun ==
    /\ ractions = <<>>
    /\ rpc = "args"
    /\ rpos = 1
    /\ rexecuted = <<>>
    /\ rexit = NoExit
    /\ rdisconnects = 0

AllOutcomes == {"ok", "miss", "assert_fail", "raise"}

\* C33: once connect() has succeeded in a run, disconnect() is executed
\* exactly once before the process ends, on every exit path of the action
\* loop (all actions completed, no actions given, a failed expect, an
\* exception raised by a handler), and never before the with block is left.
C33_DisconnectOncePerRun ==
    /\ [](rpc \notin {"exited"} => rdisconnects = 0)
    /\ [][(rpc = "loop" /\ rpc' # "loop")
            => (rpc' = "exited" /\ rdisconnects' = 1)]_vars
    /\ [][rpc = "exited" => rdisconnects' = rdisconnects]_vars

\* the process ended on the early return of a run without actions, after
\* its one disconnect()
C33_Witness ==
    /\ rpc = "exited"
    /\ ractions = <<>>
    /\ rexit = 0
    /\ rdisconnects = 1

\* the process ended on an exception a handler raised, after its one
\* disconnect()
C33_WitnessRaise ==
    /\ rpc = "exited"
    /\ rexecuted # <<>>
    /\ rexecuted[Len(rexecuted)].outcome = "raise"
    /\ rdisconnects = 1

\* C3: actions are executed in list order, and when an expect fails at
\* position k exactly the actions 1..k have been executed, nothing is
\* executed after it and the process ends with exit code 1.
C3_AssertionGating ==
    /\ \A j \in 1..Len(rexecuted) :
          rexecuted[j].idx = j /\ rexecuted[j].flag = ractions[j]
    /\ \A k \in 1..Len(rexecuted) :
          rexecuted[k].outcome = "assert_fail" =>
              /\ rexecuted[k].flag = "--expect"
              /\ Len(rexecuted) = k
              /\ rpc = "exited"
              /\ rexit = 1

\* a run of four actions whose second action is an expect that failed
C3_Witness ==
    /\ Len(ractions) = 4
    /\ Len(rexecuted) = 2
    /\ rexecuted[1].outcome \in {"ok", "miss"}
    /\ rexecuted[2].outcome = "assert_fail"
    /\ rpc = "exited"

\* C4: whatever the remote calls of an action other than expect do, its
\* handler reports success and the next action is executed: a run stops
\* before the end of the list only on a failed expect.
C4_OnlyExpectStops ==
    /\ \A k \in 1..Len(rexecuted) :
          rexecuted[k].flag # "--expect" => rexecuted[k].outcome \in {"ok", "miss"}
    /\ (rpc = "exited" /\ rexecuted # <<>> /\ Len(rexecuted) < Len(ractions)) =>
          rexecuted[Len(rexecuted)].outcome = "assert_fail"

\* the with block was entered and left by the end of the action list, every
\* action having run without a failed assertion and without an exception
RanAll ==
    /\ rpc = "exited"
    /\ rdisconnects = 1
    /\ Len(rexecuted) = Len(ractions)
    /\ \A k \in 1..Len(rexecuted) : rexecuted[k].outcome \in {"ok", "miss"}

\* C14: the exit code is 0 when every action ran and no assertion failed,
\* and 1 both when an expect action fails and when the validation of the
\* required arguments (--platform, --app-id) fails.
C14_ExitCodes ==
    /\ RanAll => rexit = 0
    /\ (rexecuted # <<>> /\ rexecuted[Len(rexecuted)].outcome = "assert_fail")
          => rexit = 1
    /\ rpc = "usage_error" => rexit = 1

(***************************************************************************)
(* AppiumAgent.end_all_sessions                                            *)
(***************************************************************************)

MaxFiles == 3           \* most session_*.json files in the cache directory

\* the session ids the records of the directory name
EndSids == 1..2

\* what a session_*.json file can hold: content that json.loads or data.get
\* rejects (or a file that cannot be read), an object without a usable
\* "session_id", or a descriptor
EndRecords ==
    {Garbage, Descriptor(NoSid, CfgA, StartTime)}
        \cup {Descriptor(s, CfgA, StartTime) : s \in EndSids}

\* what urlopen(DELETE <server>/session/<id>) can do: answer (the session is
\* ended), raise HTTPError (the server does not know the session), or raise
\* URLError / time out; "none" when no request is made
AllEndOutcomes == {"none", "ok", "http_error", "transport_error"}
EndOutcomes(rec, lv) ==
    IF rec.kind = "dict" /\ rec.session_id # NoSid
    THEN IF rec.session_id \in lv THEN {"ok", "transport_error"}
         ELSE {"http_error", "transport_error"}
    ELSE {"none"}

\* the body of the for loop for one file: unlinked is whether the file is
\* removed, live the server's sessions afterwards, calls the requests made
end_one_unlink_in_try(rec, out, lv) ==
    IF rec.kind # "dict"
    THEN [unlinked |-> FALSE, live |-> lv, calls |-> <<>>]
    ELSE IF rec.session_id = NoSid
    THEN [unlinked |-> TRUE, live |-> lv, calls |-> <<>>]
    ELSE [unlinked |-> out = "ok",
          live |-> IF out = "ok" THEN lv \ {rec.session_id} ELSE lv,
          calls |-> << <<"DELETE", rec.session_id, out>> >>]
end_one(rec, out, lv) ==
    IF rec.kind # "dict"
    THEN \* read_text / json.loads / data.get raise: "except: pass"
         [unlinked |-> TRUE, live |-> lv, calls |-> <<>>]
    ELSE IF rec.session_id = NoSid
    THEN \* "if session_id:" is false
         [unlinked |-> TRUE, live |-> lv, calls |-> <<>>]
    ELSE \* urlopen(req, timeout=5); whatever it raises is passed over
         [unlinked |-> TRUE,
          live |-> IF out = "ok" THEN lv \ {rec.session_id} ELSE lv,
          calls |-> << <<"DELETE", rec.session_id, out>> >>]

\* "for cache_file in SESSION_CACHE_DIR.glob(...)" from file i on; acc is the
\* state so far: the files left behind, the live sessions, the calls made,
\* and whether the outcomes drawn are ones the server can give
RECURSIVE end_loop(_, _, _, _)
end_loop(files, outs, i, acc) ==
    IF i > Len(files) THEN acc
    ELSE LET st == end_one(files[i], outs[i], acc.live)
         IN end_loop(files, outs, i + 1,
                [left |-> IF st.unlinked THEN acc.left
                          ELSE Append(acc.left, files[i]),
                 live |-> st.live,
                 calls |-> acc.calls \o st.calls,
                 valid |-> acc.valid
                           /\ outs[i] \in EndOutcomes(files[i], acc.live)])

end_all_sessions(files, outs, lv) ==
    end_loop(files, outs, 1,
             [left |-> <<>>, live |-> lv, calls |-> <<>>, valid |-> TRUE])

\* AppiumAgent.end_all_sessions(appium_url), called by main for --end-session
EndAllSessions(outs) ==
    LET r == end_all_sessions(efiles, outs, elive) IN
    /\ epc = "start"
    /\ Len(outs) = Len(efiles)
    /\ r.valid
    /\ efiles' = r.left
    /\ elive' = r.live
    /\ ecalls' = r.calls
    /\ eseen' = efiles
    /\ epc' = "returned"
    /\ UNCHANGED notEnd

InitEnd ==
    /\ efiles \in SeqsUpTo(EndRecords, MaxFiles)
    /\ elive \in SUBSET EndSids
    /\ ecalls = <<>>
    /\ eseen = <<>>
    /\ epc = "start"

IdleEnd ==
    /\ efiles = <<>>
    /\ elive = {}
    /\ ecalls = <<>>
    /\ eseen = <<>>
    /\ epc = "start"

NextEnd == \E outs \in SeqsUpTo(AllEndOutcomes, MaxFiles) : EndAllSessions(outs)

\* the records of a list that name a session
WithSid(files) ==
    SelectSeq(files, LAMBDA r : r.kind = "dict" /\ r.session_id # NoSid)

\* C11: end_all_sessions never raises, and once it has returned the cache
\* directory holds no file, whatever the records were and whatever the
\* DELETE calls did; one DELETE call was issued for every record that names
\* a session, in the order of the files, failed calls included.
C11_EndAllDeletesAll ==
    /\ epc # "raised"
    /\ epc = "returned" =>
          /\ efiles = <<>>
          /\ Len(ecalls) = Len(WithSid(eseen))
          /\ \A j \in 1..Len(ecalls) :
                /\ ecalls[j][1] = "DELETE"
                /\ ecalls[j][2] = WithSid(eseen)[j].session_id

\* a directory of three files: one that cannot be parsed, one whose DELETE
\* call failed in transport, and one after them whose DELETE call succeeded
C11_Witness ==
    /\ epc = "returned"
    /\ Len(eseen) = 3
    /\ eseen[1].kind = "garbage"
    /\ Len(ecalls) = 2
    /\ ecalls[1][3] = "transport_error"
    /\ ecalls[2][3] = "ok"

(***************************************************************************)
(* Single calls of agent methods: get_text, find_like, set_slider,         *)
(* _get_session_cache_key                                                  *)
(***************************************************************************)

\* ---- Python values whose comparison matters ----
\* a str, and a member of "class Platform(Enum)" (a plain Enum: a member
\* equals only itself, never the string that is its value)
PyStr(s) == [cls |-> "str", value |-> s]
PlatformMember(p) == [cls |-> "Platform", value |-> p]
\* "x in [a, b, ...]": some item of the list equals x
py_in(x, list) == \E i \in 1..Len(list) : list[i] = x

\* ---- AppiumAgent.get_text ----
AttrNames == {"value", "label", "name", "text", "content-desc"}
\* what element.get_attribute(a) can do: give nothing (None or ""), give
\* the attribute's content (written a itself), or raise
AttrResults(a) == {"", a, "raise"}
ElementText == "element.text"
NoText == "None"

\* the attribute list get_text chooses for self.platform
get_text_attrs(platform) ==
    IF py_in(platform, <<PyStr("ios"), PyStr("maccatalyst")>>)
    THEN <<"value", "label", "name">>
    ELSE <<"text", "content-desc", "value">>

\* "for attr in attrs": the attributes read from position i on and the text
\* returned
RECURSIVE get_text_loop(_, _, _, _)
get_text_loop(attrs, elem, i, reads) ==
    IF i > Len(attrs) THEN [ret |-> ElementText, reads |-> reads]
    ELSE LET r == elem[attrs[i]] IN
         IF r \notin {"", "raise"}
         THEN [ret |-> r, reads |-> Append(reads, attrs[i])]
         ELSE get_text_loop(attrs, elem, i + 1, Append(reads, attrs[i]))

get_text(platform, found, elem) ==
    IF found THEN get_text_loop(get_text_attrs(platform), elem, 1, <<>>)
    ELSE [ret |-> NoText, reads |-> <<>>]

GetTextInputs ==
    [op : {"get_text"}, platform : Platforms, found : BOOLEAN,
     elem : [AttrNames -> {"", "set", "raise"}]]

\* the element's attributes as get_attribute gives them
ElemOf(in) ==
    [a \in AttrNames |-> IF in.elem[a] = "set" THEN a ELSE in.elem[a]]

GetText ==
    /\ ~udone
    /\ uin.op = "get_text"
    /\ uout = [op |-> "none"]
    /\ uout' = [op |-> "get_text"] @@
               get_text(PlatformMember(uin.platform), uin.found, ElemOf(uin))
    /\ udone' = TRUE
    /\ uin' = uin
    /\ UNCHANGED notCall

\* the platform's priority order of the attributes, as documented
PriorityOrder(p) ==
    IF p \in {"ios", "maccatalyst"} THEN <<"value", "label", "name">>
    ELSE <<"text", "content-desc", "value">>

\* the first attribute of a list that is set on the element (0 when none)
FirstSet(order, elem) ==
    IF \E i \in 1..Len(order) : elem[order[i]] = "set"
    THEN CHOOSE i \in 1..Len(order) :
            /\ elem[order[i]] = "set"
            /\ \A j \in 1..(i - 1) : elem[order[j]] # "set"
    ELSE 0

\* C16: for an element that was found, get_text reads the attributes in the
\* platform's priority order (value, label, name on iOS and Mac Catalyst;
\* text, content-desc, value on Android), stops at the first non-empty one
\* and returns it.
C16_PlatformAttrOrder ==
    (udone /\ uin.op = "get_text" /\ uin.found) =>
        LET order == PriorityOrder(uin.platform)
            k == FirstSet(order, uin.elem)
        IN /\ k # 0 => /\ uout.ret = order[k]
                       /\ uout.reads = SubSeq(order, 1, k)
           /\ k = 0 => uout.reads = order

\* ---- AppiumAgent.find_like ----
MaxNodes == 2           \* most nodes of a page source

\* Strings that are searched or split are sequences of characters.
LowerChar(c) ==
    CASE c = "L" -> "l" [] c = "O" -> "o" [] c = "G" -> "g" [] OTHER -> c
\* str.lower()
Lower(s) == [i \in 1..Len(s) |-> LowerChar(s[i])]
\* "sub in s"
Contains(sub, s) ==
    \E i \in 0..(Len(s) - Len(sub)) : SubSeq(s, i + 1, i + Len(sub)) = sub
\* s.split('/')[-1]
LastSegment(s) ==
    LET slashes == {i \in 1..Len(s) : s[i] = "/"} IN
    IF slashes = {} THEN s
    ELSE SubSeq(s, (CHOOSE i \in slashes : \A j \in slashes : j <= i) + 1, Len(s))

\* the attributes find_like looks at, in the order of its inner loop
FLAttrs == <<"name", "identifier", "resource-id", "accessibility-id", "content-desc">>

NoAttrs == [a \in {FLAttrs[i] : i \in 1..Len(FLAttrs)} |-> <<>>]
\* nodes of a page source: name "Log"; resource-id "a:id/log" with
\* content-desc "go"; identifier "LOG/x"; a node with none of the attributes
FLNodes ==
    {[NoAttrs EXCEPT !["name"] = <<"L", "o", "g">>],
     [NoAttrs EXCEPT !["resource-id"] = <<"a", ":", "i", "d", "/", "l", "o", "g">>,
                     !["content-desc"] = <<"g", "o">>],
     [NoAttrs EXCEPT !["identifier"] = <<"L", "O", "G", "/", "x">>],
     NoAttrs}
FLPartials == {<<"l", "o">>, <<"L", "O">>, <<"g", "o">>, <<"o">>, <<"z">>}

\* what self.driver.page_source followed by ET.fromstring gives: the remote
\* call raises, the text is not well-formed XML, or a tree (its nodes in
\* document order, as root.iter() yields them)
FLSources ==
    {[kind |-> "raise", nodes |-> <<>>], [kind |-> "unparseable", nodes |-> <<>>]}
        \cup {[kind |-> "tree", nodes |-> ns] : ns \in SeqsUpTo(FLNodes, MaxNodes)}

\* position k of the double loop: node (k-1) \div 5 + 1, attribute (k-1) % 5 + 1
FLValue(nodes, k) ==
    nodes[((k - 1) \div Len(FLAttrs)) + 1][FLAttrs[((k - 1) % Len(FLAttrs)) + 1]]
FLMatches(nodes, partial, k) ==
    /\ FLValue(nodes, k) # <<>>
    /\ Contains(Lower(partial), Lower(FLValue(nodes, k)))
\* the first position that matches (0 when none does)
FirstMatch_last(nodes, partial) ==
    LET ks == {k \in 1..(Len(nodes) * Len(FLAttrs)) : FLMatches(nodes, partial, k)}
    IN IF ks = {} THEN 0 ELSE CHOOSE k \in ks : \A j \in ks : k >= j
FirstMatch(nodes, partial) ==
    LET ks == {k \in 1..(Len(nodes) * Len(FLAttrs)) : FLMatches(nodes, partial, k)}
    IN IF ks = {} THEN 0 ELSE CHOOSE k \in ks : \A j \in ks : k <= j

\* the query of the WebDriverWait at the end of find_like
FLXPath(platform, partial) ==
    IF py_in(platform, <<PlatformMember("ios"), PlatformMember("maccatalyst")>>)
    THEN <<"contains", <<"name">>, partial>>
    ELSE <<"contains", <<"resource-id", "content-desc">>, partial>>

NoneRet == "None"
\* find_like: inner is what the find_element call does ("elem", "none" or
\* "raise"), xp what the WebDriverWait does ("elem" or "timeout")
find_like(platform, partial, source, timeout, inner, xp) ==
    LET k == IF source.kind = "tree" THEN FirstMatch(source.nodes, partial) ELSE 0
        ps == <<"page_source">>
    IN
    IF source.kind # "tree"
    THEN \* page_source or ET.fromstring raises: "except: return None"
         [ret |-> NoneRet, calls |-> <<ps>>]
    ELSE IF k # 0
    THEN \* return self.find_element(value.split('/')[-1], timeout=timeout)
         [ret |-> IF inner = "elem" THEN "elem" ELSE NoneRet,
          calls |-> <<ps, <<"find_element",
                            LastSegment(FLValue(source.nodes, k)), timeout>> >>]
    ELSE \* WebDriverWait(self.driver, timeout).until(...)
         [ret |-> IF xp = "elem" THEN "elem" ELSE NoneRet,
          calls |-> <<ps, <<"xpath", FLXPath(platform, partial), timeout>> >>]

FindLikeInputs ==
    [op : {"find_like"}, platform : Platforms, partial : FLPartials,
     source : FLSources, timeout : {5, 10},
     inner : {"elem", "none", "raise"}, xp : {"elem", "timeout"}]

FindLike ==
    /\ ~udone
    /\ uin.op = "find_like"
    /\ uout = [op |-> "none"]
    /\ uout' = [op |-> "find_like"] @@
               find_like(PlatformMember(uin.platform), uin.partial, uin.source,
                         uin.timeout, uin.inner, uin.xp)
    /\ udone' = TRUE
    /\ uin' = uin
    /\ UNCHANGED notCall

\* the calls of a kind that the call made
UCalls(kind) == SelectSeq(uout.calls, LAMBDA c : c[1] = kind)

\* C15: find_like sends the contains query (an XPath contains() find, waited
\* on up to the timeout) whenever the page source cannot be parsed as a
\* tree, and whenever the parsed tree has no matching node.
C15_FallbackToContains ==
    (/\ udone /\ uin.op = "find_like"
     /\ \/ uin.source.kind = "unparseable"
        \/ /\ uin.source.kind = "tree"
           /\ FirstMatch(uin.source.nodes, uin.partial) = 0)
    => /\ Len(UCalls("xpath")) = 1
       /\ UCalls("xpath")[1][3] = uin.timeout
       /\ uout.ret = (IF uin.xp = "elem" THEN "elem" ELSE NoneRet)

\* ---- AppiumAgent.set_slider ----
\* The argument is in hundredths (50 is 0.5, 5000 is 50), the value sent in
\* ten-thousandths (5000 is 0.5), so that value / 100.0 is exact.
MaxSlider == 15001      \* largest argument, in hundredths
NotSent == 0 - 1

slider_value_ge(v) ==
    LET scaled == IF v >= 100 THEN v ELSE v * 100
    IN Max(0, Min(100 * 100, scaled))
\* "if value > 1: value = value / 100.0", then max(0.0, min(1.0, value))
slider_value(v) ==
    LET scaled == IF v > 100 THEN v ELSE v * 100
    IN Max(0, Min(100 * 100, scaled))

set_slider(found, v) ==
    IF found THEN [ret |-> TRUE, sent |-> slider_value(v)]
    ELSE [ret |-> FALSE, sent |-> NotSent]

SetSliderInputs ==
    [op : {"set_slider"}, found : BOOLEAN, value : (0 - 2 * 100 - 1)..MaxSlider]

SetSlider ==
    /\ ~udone
    /\ uin.op = "set_slider"
    /\ uout = [op |-> "none"]
    /\ uout' = [op |-> "set_slider"] @@ set_slider(uin.found, uin.value)
    /\ udone' = TRUE
    /\ uin' = uin
    /\ UNCHANGED notCall

KeyPlatforms == {"ios", "android"}
KeyAppIds == {"com.example.app", "com.example.app17792325",
              "com.example.app19711646"}
KeyUdids == {"sim1", "sim2"}
KeyUrls == {"http://127.0.0.1:4723", "http://127.0.0.1:4724"}
KeyConfigs ==
    [platform : KeyPlatforms, app_id : KeyAppIds, udid : KeyUdids,
     appium_url : KeyUrls]

\* f"{self.platform.value}:{self.app_id}:{self.udid}:{self.appium_url}"
key_parts(cfg) ==
    cfg.platform \o ":" \o cfg.app_id \o ":" \o cfg.udid \o ":" \o cfg.appium_url

\* hashlib.md5(s.encode()).hexdigest() for the strings key_parts gives on
\* KeyConfigs, as its first 12 and its last 20 hexadecimal digits
md5_hexdigest(s) ==
    CASE
        s = "ios:com.example.app:sim1:http://127.0.0.1:4723"
            -> <<"43e2639c76d4", "12412ad5bd3f312cce09">>
     []
        s = "ios:com.example.app:sim1:http://127.0.0.1:4724"
            -> <<"bfb10c8a58e9", "c497fec0b5e27176b85d">>
     []
        s = "ios:com.example.app:sim2:http://127.0.0.1:4723"
            -> <<"57af3d928474", "5015ee2ba4ee8d3c4f08">>
     []
        s = "ios:com.example.app:sim2:http://127.0.0.1:4724"
            -> <<"5d95b9116301", "c74b3e4c524ef8fd9be7">>
     []
        s = "ios:com.example.app17792325:sim1:http://127.0.0.1:4723"
            -> <<"40dfc2d2e2c0", "4a09ae09fb2ec05eea89">>
     []
        s = "ios:com.example.app17792325:sim1:http://127.0.0.1:4724"
            -> <<"5cf478c19086", "fc2f97d337a3be602330">>
     []
        s = "ios:com.example.app17792325:sim2:http://127.0.0.1:4723"
            -> <<"76b0830611a8", "1ec47666725f6554c2ba">>
     []
        s = "ios:com.example.app17792325:sim2:http://127.0.0.1:4724"
            -> <<"c4ae9eff3a6d", "4a3e0f4d045b285bdd5d">>
     []
        s = "ios:com.example.app19711646:sim1:http://127.0.0.1:4723"
            -> <<"40dfc2d2e2c0", "d17c0148b4d40175f9c8">>
     []
        s = "ios:com.example.app19711646:sim1:http://127.0.0.1:4724"
            -> <<"0d45cc443bca", "8989ae0228143680e8fc">>
     []
        s = "ios:com.example.app19711646:sim2:http://127.0.0.1:4723"
            -> <<"e44d3f2cc019", "8cc98589ca8fbacd3ea3">>
     []
        s = "ios:com.example.app19711646:sim2:http://127.0.0.1:4724"
            -> <<"8e1082325b25", "b737e3448bb2391a05de">>
     []
        s = "android:com.example.app:sim1:http://127.0.0.1:4723"
            -> <<"fb15a30b8d66", "152c7feb200b67143d6b">>
     []
        s = "android:com.example.app:sim1:http://127.0.0.1:4724"
            -> <<"e91313aa0668", "61c46d48912edab31b47">>
     []
        s = "android:com.example.app:sim2:http://127.0.0.1:4723"
            -> <<"2bd5f05c1e2b", "80cc4e5c6e28d3e7741d">>
     []
        s = "android:com.example.app:sim2:http://127.0.0.1:4724"
            -> <<"268119913d46", "b531970831043a887c57">>
     []
        s = "android:com.example.app17792325:sim1:http://127.0.0.1:4723"
            -> <<"157ac5f73d26", "9dfe000659bdff687f47">>
     []
        s = "android:com.example.app17792325:sim1:http://127.0.0.1:4724"
            -> <<"48a29422aafa", "04f2cca51b676709b420">>
     []
        s = "android:com.example.app17792325:sim2:http://127.0.0.1:4723"
            -> <<"db3d3f9a3674", "3e93f71d9f1943d3a417">>
     []
        s = "android:com.example.app17792325:sim2:http://127.0.0.1:4724"
            -> <<"6334052a844e", "eb208626f75add7a0e1e">>
     []
        s = "android:com.example.app19711646:sim1:http://127.0.0.1:4723"
            -> <<"ccb23956482e", "9a32ff2f04ec2baa7616">>
     []
        s = "android:com.example.app19711646:sim1:http://127.0.0.1:4724"
            -> <<"64f3c4dfbaa9", "bc8320d73601dffa21e6">>
     []
        s = "android:com.example.app19711646:sim2:http://127.0.0.1:4723"
            -> <<"dbd9a461d002", "eb7f2ab479a40fee930a">>
     []
        s = "android:com.example.app19711646:sim2:http://127.0.0.1:4724"
            -> <<"0f6409c97f9f", "7f84e70304d117296bf5">>

\* hashlib.md5(key_parts.encode()).hexdigest()[:12]
session_cache_key(cfg) == md5_hexdigest(key_parts(cfg))[1]

CacheKeyInputs == [op : {"cache_key"}, cfg1 : KeyConfigs, cfg2 : KeyConfigs]

\* two agents compute their cache keys
CacheKey ==
    /\ ~udone
    /\ uin.op = "cache_key"
    /\ uout = [op |-> "none"]
    /\ uout' = [op |-> "cache_key", key1 |-> session_cache_key(uin.cfg1),
                key2 |-> session_cache_key(uin.cfg2)]
    /\ udone' = TRUE
    /\ uin' = uin
    /\ UNCHANGED notCall

\* the fields in which two configurations differ
DifferIn(c1, c2) ==
    {f \in {"platform", "app_id", "udid", "appium_url"} : c1[f] # c2[f]}

\* C20: two agents with the same platform, app id, device id and server URL
\* compute the same fingerprint, and two agents that differ in exactly one
\* of the four fields compute different fingerprints.
C20_FingerprintSeparates ==
    (udone /\ uin.op = "cache_key") =>
        /\ uin.cfg1 = uin.cfg2 => uout.key1 = uout.key2
        /\ Cardinality(DifferIn(uin.cfg1, uin.cfg2)) = 1 => uout.key1 # uout.key2

\* sub occurs in s as a run of consecutive characters
OccursIn(sub, s) ==
    \E k \in 0..Len(s) :
        /\ k + Len(sub) <= Len(s)
        /\ \A m \in 1..Len(sub) : s[k + m] = sub[m]

\* the value of attribute number a of node number n contains the partial
\* id, case-insensitively
FLHit(n, a) ==
    LET value == uin.source.nodes[n][FLAttrs[a]] IN
    /\ value # <<>>
    /\ OccursIn(Lower(uin.partial), Lower(value))

\* (n, a) comes before (m, b) in the scan: an earlier node, or the same node
\* and an earlier attribute
FLBefore(n, a, m, b) == n < m \/ (n = m /\ a < b)

\* C27: find_like scans the nodes in document order and per node the
\* attributes name, identifier, resource-id, accessibility-id, content-desc;
\* at the first value containing partial_id case-insensitively it returns
\* the result of find_element on the segment of that value after its last
\* "/", looks no further and sends no contains query, also when that
\* find_element finds nothing.
C27_FirstHitReresolved ==
    (udone /\ uin.op = "find_like" /\ uin.source.kind = "tree") =>
        \A n \in 1..Len(uin.source.nodes), a \in 1..Len(FLAttrs) :
            (/\ FLHit(n, a)
             /\ \A m \in 1..Len(uin.source.nodes), b \in 1..Len(FLAttrs) :
                   FLBefore(m, b, n, a) => ~FLHit(m, b))
            => LET value == uin.source.nodes[n][FLAttrs[a]] IN
               /\ FLAttrs = <<"name", "identifier", "resource-id",
                              "accessibility-id", "content-desc">>
               /\ uout.calls = << <<"page_source">>,
                                  <<"find_element", LastSegment(value),
                                    uin.timeout>> >>
               /\ \A i \in 1..Len(value) : value[i] = "/" =>
                     Len(LastSegment(value)) <= Len(value) - i
               /\ \A i \in 1..Len(LastSegment(value)) :
                     LastSegment(value)[i] # "/"
               /\ UCalls("xpath") = <<>>
               /\ uout.ret = (IF uin.inner = "elem" THEN "elem" ELSE NoneRet)

\* a page in which two attributes of the first node and an attribute of the
\* second node contain the partial id: find_element is called for the
\* segment after "/" of the first of them (the resource-id) and finds nothing
C27_Witness ==
    /\ udone /\ uin.op = "find_like" /\ uin.source.kind = "tree"
    /\ Len(uin.source.nodes) = 2
    /\ FLHit(1, 3) /\ FLHit(1, 5) /\ FLHit(2, 1)
    /\ uout.calls[2] = <<"find_element", <<"l", "o", "g">>, uin.timeout>>
    /\ uin.inner = "none"
    /\ uout.ret = NoneRet

\* ---- AppiumAgent.find_elements ----
\* what self.driver.find_elements(by, value) can do for one locator: raise,
\* or give the elements it matches
FindAllResults ==
    {[raises |-> TRUE, found |-> {}]}
        \cup {[raises |-> FALSE, found |-> S] : S \in SUBSET (1..NumElems)}

\* the list the remote call returns for a set of matching elements
RECURSIVE InOrder(_)
InOrder(S) ==
    IF S = {} THEN <<>>
    ELSE LET x == CHOOSE y \in S : \A z \in S : y <= z
         IN <<x>> \o InOrder(S \ {x})

\* the locators of "for by in [ACCESSIBILITY_ID, ID, NAME]"
find_elements_strategies(identifier) ==
    << <<"accessibility id", <<identifier>> >>,
       <<"id", <<identifier>> >>,
       <<"name", <<identifier>> >> >>

\* the for loop from strategy i on: the locators sent and the list built
RECURSIVE find_elements_loop(_, _, _)
find_elements_loop(strategies, page, i) ==
    IF i > Len(strategies) THEN [calls |-> <<>>, ret |-> <<>>]
    ELSE LET rest == find_elements_loop(strategies, page, i + 1)
             r == page[strategies[i]]
         IN [calls |-> <<strategies[i]>> \o rest.calls,
             \* elements.extend(found); "except: pass"
             ret |-> (IF r.raises THEN <<>> ELSE InOrder(r.found)) \o rest.ret]

find_elements(platform, app_id, identifier, page) ==
    find_elements_loop(find_elements_strategies(identifier), page, 1)

FindElementsInputs ==
    [op : {"find_elements"}, platform : Platforms, app_id : {"com.example.app"},
     identifier : {"Submit"},
     page : [Locators("com.example.app", "Submit") -> FindAllResults]]

FindElements ==
    /\ ~udone
    /\ uin.op = "find_elements"
    /\ uout = [op |-> "none"]
    /\ uout' = [op |-> "find_elements"] @@
               find_elements(uin.platform, uin.app_id, uin.identifier, uin.page)
    /\ udone' = TRUE
    /\ uin' = uin
    /\ UNCHANGED notCall

\* C21: find_elements sends every strategy of the identifier's expansion
\* for the active platform, whatever the earlier strategies matched or
\* raised, and returns the union of the elements the strategies match.
C21_AllStrategiesUnion ==
    (udone /\ uin.op = "find_elements") =>
        LET expansion == Strategies(uin.platform, uin.app_id, uin.identifier)
            matched == UNION {uin.page[expansion[j]].found :
                                j \in 1..Len(expansion)}
        IN /\ uout.calls = expansion
           /\ {uout.ret[i] : i \in 1..Len(uout.ret)} = matched

\* ---- AppiumAgent.expect and _handle_expect ----
\* the texts an element shows and an expectation names
ExpectTexts == {<<>>, <<"O">>, <<"L", "O", "G">>, <<"l", "o">>, <<"g", "o">>}
\* what the property element.text can do: give None, give the text, or raise
ElementTextResults == {"none", "content", "raise"}
\* the second member of the tuple expect returns: None, or the text
NoActual == [none |-> TRUE, text |-> <<>>]
Actual(t) == [none |-> FALSE, text |-> t]

\* expect, the handler and the loop of main() around it. found, elem: as
\* for get_text; content: the text of the element, given by every attribute
\* that is set and by element.text; etext: what element.text does.
\*   passed, actual   the tuple expect returns
\*   raised           an exception leaves expect
\*   handler          what _handle_expect returns (as execute_action sees it)
\*   exit             the status main() exits with because of this action
expect_ignoring_case(platform, found, elem, content, etext, expected) ==
    LET g == get_text(platform, found, elem)
        raised == g.ret = ElementText /\ etext = "raise"
        actual == IF g.ret = NoText \/ (g.ret = ElementText /\ etext = "none")
                  THEN NoActual ELSE Actual(content)
        passed == ~actual.none /\ Contains(Lower(expected), Lower(actual.text))
        outcome == IF passed THEN "ok" ELSE "assert_fail"
    IN IF raised
       THEN [passed |-> FALSE, actual |-> NoActual, raised |-> TRUE,
             handler |-> FALSE, exit |-> 1]
       ELSE [passed |-> passed, actual |-> actual, raised |-> FALSE,
             handler |-> execute_action("--expect", outcome),
             exit |-> IF execute_action("--expect", outcome) THEN NoExit ELSE 1]
expect(platform, found, elem, content, etext, expected) ==
    LET g == get_text(platform, found, elem)
        \* element.text raises: nothing between it and main() catches
        raised == g.ret = ElementText /\ etext = "raise"
        \* actual = self.get_text(identifier)
        actual == IF g.ret = NoText \/ (g.ret = ElementText /\ etext = "none")
                  THEN NoActual ELSE Actual(content)
        \* "if actual is None: return False, None"; "expected in actual"
        passed == ~actual.none /\ Contains(expected, actual.text)
        outcome == IF passed THEN "ok" ELSE "assert_fail"
    IN IF raised
       THEN [passed |-> FALSE, actual |-> NoActual, raised |-> TRUE,
             handler |-> FALSE, exit |-> 1]
       ELSE [passed |-> passed, actual |-> actual, raised |-> FALSE,
             handler |-> execute_action("--expect", outcome),
             exit |-> IF execute_action("--expect", outcome) THEN NoExit ELSE 1]

ExpectElems == {[a \in AttrNames |-> x] : x \in {"", "set", "raise"}}

\* an attribute that is set gives a text that is not empty
ExpectInputs ==
    {in \in [op : {"expect"}, platform : Platforms, found : BOOLEAN,
             elem : ExpectElems, content : ExpectTexts,
             etext : ElementTextResults, expected : ExpectTexts] :
        in.content = <<>> => \A a \in AttrNames : in.elem[a] # "set"}

Expect ==
    /\ ~udone
    /\ uin.op = "expect"
    /\ uout = [op |-> "none"]
    /\ uout' = [op |-> "expect"] @@
               expect(PlatformMember(uin.platform), uin.found, ElemOf(uin),
                      uin.content, uin.etext, uin.expected)
    /\ udone' = TRUE
    /\ uin' = uin
    /\ UNCHANGED notCall

\* C24: expect(id, expected) passes exactly when the element is found and
\* the text extracted from it contains expected as a substring; when it
\* does not pass, the handler reports failure and the run exits with 1.
C24_ExpectPasses ==
    (udone /\ uin.op = "expect") =>
        /\ uout.passed <=>
              /\ uin.found
              /\ uout.actual = Actual(uin.content)
              /\ OccursIn(uin.expected, uout.actual.text)
        /\ ~uin.found => uout.actual = NoActual /\ ~uout.passed
        /\ uout.passed => uout.handler /\ uout.exit = NoExit
        /\ ~uout.passed => ~uout.handler /\ uout.exit = 1

\* an expectation that passed on text in the middle of the element's text,
\* and the state predicate below, one that failed on a difference of case
C24_Witness ==
    /\ udone /\ uin.op = "expect"
    /\ uout.passed
    /\ uin.expected = <<"O">> /\ uout.actual = Actual(<<"L", "O", "G">>)

C24_WitnessFail ==
    /\ udone /\ uin.op = "expect"
    /\ uin.found /\ ~uout.passed /\ ~uout.raised
    /\ uin.expected = <<"l", "o">> /\ uout.actual = Actual(<<"L", "O", "G">>)
    /\ uout.exit = 1

\* ---- the calls of the model ----
InitCall ==
    /\ uin \in GetTextInputs \cup FindLikeInputs \cup SetSliderInputs
                  \cup CacheKeyInputs \cup ExpectInputs
                  \cup FindElementsInputs
    /\ uout = [op |-> "none"]
    /\ udone = FALSE

NextCall ==
    \/ GetText
    \/ FindLike
    \/ SetSlider
    \/ CacheKey
    \/ Expect
    \/ FindElements

IdleCall ==
    /\ uin = [op |-> "none"]
    /\ uout = [op |-> "none"]
    /\ udone = FALSE

(***************************************************************************)
(* The polling loops: AppiumAgent.wait_for_text and wait_until_gone        *)
(***************************************************************************)

\* Times are in ticks of 1/36 s, as for find_element.
MaxWaitHalves == 2      \* largest timeout of a wait call, in half seconds
MaxDelay == 1           \* ticks a find attempt can take beyond its wait

PollSleep == (3 * TicksPerThird) \div 2          \* time.sleep(0.5)
ExistsTimeout == (3 * TicksPerThird) \div 2      \* exists(identifier, timeout=0.5)
GetTextTimeout == 5 * 3 * TicksPerThird          \* find_element(identifier, timeout=5)
WaitTimeouts == {PollSleep * k : k \in 0..MaxWaitHalves}

\* find_element as one call, from strategy i on with the given time elapsed:
\* the element returned (NoElem for None), the locators tried, and the time
\* the call lasted; over is what an attempt takes beyond its wait
RECURSIVE find_element_from(_, _, _, _, _, _)
find_element_from(strategies, page, timeout, i, elapsed, over) ==
    IF i > Len(strategies) \/ elapsed >= timeout
    THEN [elem |-> NoElem, tried |-> <<>>, elapsed |-> elapsed]
    ELSE LET budget == strategy_timeout(timeout, Len(strategies), elapsed)
             el == page[strategies[i]]
         IN IF el # NoElem
            THEN [elem |-> el, tried |-> <<strategies[i]>>,
                  elapsed |-> elapsed + over]
            ELSE LET rest == find_element_from(strategies, page, timeout, i + 1,
                                               elapsed + budget + over, over)
                 IN [elem |-> rest.elem,
                     tried |-> <<strategies[i]>> \o rest.tried,
                     elapsed |-> rest.elapsed]

find_element(platform, app_id, identifier, page, timeout, over) ==
    find_element_from(Strategies(platform, app_id, identifier), page, timeout,
                      1, 0, over)

WaitCalls ==
    [kind : {"wait_for_text", "wait_until_gone"}, platform : {"ios", "android"},
     app_id : {"com.example.app"}, identifier : {"Submit"},
     timeout : WaitTimeouts]

\* the page as one iteration sees it, by the locators that match the
\* element: none, all, the generic id only, the package-qualified id only
WaitPages ==
    LET all == Locators("com.example.app", "Submit")
        only(by, value) == [l \in all |-> IF l = <<by, value>> THEN 1 ELSE NoElem]
    IN {[l \in all |-> NoElem], [l \in all |-> 1],
        only("id", <<"Submit">>),
        only("id", <<"com.example.app", ":id/", "Submit">>)}

NoGap == 0 - 1
NoPoll == [start |-> 0, end |-> 0, gap |-> NoGap, page |-> <<>>, tried |-> <<>>,
           success |-> FALSE, raised |-> FALSE, polled |-> FALSE]

\* One iteration of "while time.time() < end_time". pg: the page during
\* the iteration; over: the time an attempt of find_element takes beyond
\* its wait; err: a remote call raises an error that find_element does not
\* catch; textok: "text and expected in text" for the text get_text gives.
\* time.sleep(0.5) lasts 0.5 s; what it oversleeps counts as overhead of
\* the next iteration.
WaitPoll_nosleep(pg, over, err, textok) ==
    LET gone == wcall.kind = "wait_until_gone"
        r == find_element(wcall.platform, wcall.app_id, wcall.identifier, pg,
                          IF gone THEN ExistsTimeout ELSE GetTextTimeout, over)
        success == IF gone THEN r.elem = NoElem ELSE r.elem # NoElem /\ textok
        end == wnow + (IF err THEN over ELSE r.elapsed)
    IN
    /\ wresult = "pending"
    /\ wnow < wcall.timeout
    /\ wlast' = [start |-> wnow, end |-> end,
                 gap |-> IF wlast.polled THEN wnow - wlast.end ELSE NoGap,
                 page |-> pg, tried |-> IF err THEN <<r.tried[1]>> ELSE r.tried,
                 success |-> ~err /\ success, raised |-> err, polled |-> TRUE]
    /\ wresult' = IF err THEN "raised" ELSE IF success THEN "true" ELSE "pending"
    /\ wnow' = end
    /\ wcall' = wcall
    /\ UNCHANGED notWait
WaitPoll(pg, over, err, textok) ==
    LET gone == wcall.kind = "wait_until_gone"
        \* exists(identifier, timeout=0.5) / get_text(identifier)
        r == find_element(wcall.platform, wcall.app_id, wcall.identifier, pg,
                          IF gone THEN ExistsTimeout ELSE GetTextTimeout, over)
        success == IF gone THEN r.elem = NoElem ELSE r.elem # NoElem /\ textok
        end == wnow + (IF err THEN over ELSE r.elapsed)
    IN
    /\ wresult = "pending"
    /\ wnow < wcall.timeout
    /\ wlast' = [start |-> wnow, end |-> end,
                 gap |-> IF wlast.polled THEN wnow - wlast.end ELSE NoGap,
                 page |-> pg, tried |-> IF err THEN <<r.tried[1]>> ELSE r.tried,
                 success |-> ~err /\ success, raised |-> err, polled |-> TRUE]
    /\ wresult' = IF err THEN "raised" ELSE IF success THEN "true" ELSE "pending"
    /\ wnow' = IF err \/ success THEN end ELSE end + PollSleep
    /\ wcall' = wcall
    /\ UNCHANGED notWait

\* the while condition is false: "return False"
WaitDeadline ==
    /\ wresult = "pending"
    /\ wnow >= wcall.timeout
    /\ wresult' = "false"
    /\ UNCHANGED <<wcall, wnow, wlast>>
    /\ UNCHANGED notWait

InitWait ==
    /\ wcall \in WaitCalls
    /\ wnow = 0
    /\ wlast = NoPoll
    /\ wresult = "pending"

IdleWait ==
    /\ wcall = [kind |-> "wait_until_gone", platform |-> "ios",
                app_id |-> "com.example.app", identifier |-> "Submit",
                timeout |-> 0]
    /\ wnow = 0
    /\ wlast = NoPoll
    /\ wresult = "pending"

NextWait ==
    \/ \E pg \in WaitPages, over \in 0..MaxDelay, err \in BOOLEAN,
          textok \in (IF wcall.kind = "wait_for_text" THEN BOOLEAN ELSE {FALSE}) :
          WaitPoll(pg, over, err, textok)
    \/ WaitDeadline

\* what holds at every moment of a wait call: an iteration starts only
\* before the deadline, an iteration after the first starts 0.5 s after
\* the one before it ended, and False is returned only
\* once the deadline has passed and the last iteration did not succeed
WaitSafe ==
    /\ wlast.polled => wlast.start < wcall.timeout
    /\ (wlast.polled /\ wlast.gap # NoGap) =>
          wlast.gap = PollSleep
    /\ wresult = "false" => wnow >= wcall.timeout /\ ~wlast.success
    /\ wresult = "true" => wlast.polled /\ wlast.success

C30_GoneUnderEveryStrategy ==
    (wcall.kind = "wait_until_gone" /\ wresult = "true") =>
        \A j \in 1..Len(Strategies(wcall.platform, wcall.app_id,
                                    wcall.identifier)) :
            wlast.page[Strategies(wcall.platform, wcall.app_id,
                                  wcall.identifier)[j]] = NoElem

(***************************************************************************)
(* Specifications                                                          *)
(***************************************************************************)

InitS == InitSession /\ IdleFind /\ IdleParse /\ IdleRun /\ IdleEnd /\ IdleCall /\ IdleWait
InitF == IdleSession /\ InitFind /\ IdleParse /\ IdleRun /\ IdleEnd /\ IdleCall /\ IdleWait
InitP == IdleSession /\ IdleFind /\ InitParse /\ IdleRun /\ IdleEnd /\ IdleCall /\ IdleWait
InitR == IdleSession /\ IdleFind /\ IdleParse /\ InitRun /\ IdleEnd /\ IdleCall /\ IdleWait
InitE == IdleSession /\ IdleFind /\ IdleParse /\ IdleRun /\ InitEnd /\ IdleCall /\ IdleWait
InitC == IdleSession /\ IdleFind /\ IdleParse /\ IdleRun /\ IdleEnd /\ InitCall /\ IdleWait
InitW == IdleSession /\ IdleFind /\ IdleParse /\ IdleRun /\ IdleEnd /\ IdleCall /\ InitWait

NextParse == Parse

NextRun ==
    \/ \E p \in BOOLEAN, i \in BOOLEAN : RunValidate(p, i)
    \/ \E r \in BOOLEAN, st \in BOOLEAN : RunEnsureAppium(r, st)
    \/ \E ok \in BOOLEAN : RunConnect(ok)
    \/ \E o \in AllOutcomes : RunExecute(o)
    \/ \E d \in BOOLEAN : RunFinish(d)

SpecSession == InitS /\ [][NextSession]_vars
SpecFind == InitF /\ [][NextFind]_vars
SpecParse == InitP /\ [][NextParse]_vars
SpecRun == InitR /\ [][NextRun]_vars
SpecEnd == InitE /\ [][NextEnd]_vars
SpecCall == InitC /\ [][NextCall]_vars
\* one thread runs the loop, and every remote call and every sleep of an
\* iteration returns: an iteration that can be taken is taken
SpecWait == InitW /\ [][NextWait]_vars /\ WF_waitVars(NextWait)
====
